---- MODULE Spec2Model ----
(***************************************************************************)
(* BlogSpace API server: the bearer-token middleware                       *)
(* (server/middleware/auth.js) and the blog routes (server/routes/blog.js) *)
(* over the document store.                                                *)
(*                                                                         *)
(* Spec is the content routes (create, read, list, update, delete), one    *)
(* request at a time: every handler is one step.  LikeSpec is the like     *)
(* route with MaxInflight requests overlapping: the handler awaits the     *)
(* store twice (read, then write) and is two steps, the first leaving its  *)
(* continuation in `inflight`.  AuthSpec is the middleware in front of a   *)
(* protected route, with the revocation set.                               *)
(***************************************************************************)
EXTENDS Integers, Sequences, FiniteSets, TLC

VARIABLES
    users,          \* the users collection: user id -> stored user document
    tokenBlacklist, \* auth.js: const tokenBlacklist = new Set()
    blogs,          \* the blogs collection: post id -> stored post document
    nextId,         \* the next fresh post id (ids are never reused)
    mediaStore,     \* the media store: public ids of the stored files
    inflight,       \* slot -> continuation of a handler between its two awaits
    toggles,        \* history: post id -> user id -> toggleLike calls applied
    reads,          \* history: post id -> qualifying detail reads served
    last,           \* history: the step just taken (request, response, pre-state)
    likedState,     \* BlogCard: useState({ isLiked, likesCount }) of one card
    session,        \* the client's useAuth(): isAuthenticated, token, user
    grid,           \* BlogGrid: its props, state and loadingRef
    explore,        \* Explore: the URL's search params and the page's state
    myPostsPage,    \* MyPosts: posts, loading, error
    pending,        \* the client's list requests on the network
    localStorage,   \* the browser's localStorage: the 'token' item
    authState       \* AuthProvider: user, token, loading, error

\* The client's pages and their requests.
views == <<grid, explore, myPostsPage, pending, localStorage, authState>>

vars == <<users, tokenBlacklist, blogs, nextId, mediaStore, inflight,
          toggles, reads, last, likedState, session, views>>

(***************************************************************************)
(* Bounds of the model.                                                    *)
(***************************************************************************)
MaxPosts == 1
MaxViews == 2
MaxClock == 2
MaxInflight == 2
MaxListed == 2
MaxComments == 2

(***************************************************************************)
(* Values.                                                                 *)
(***************************************************************************)
Undefined == "undefined"
Null == 0
NoHeader == <<>>
Idle == [kind |-> "idle"]

UserIds == {"u1", "u2", "u3"}

\* The users collection as the program finds it: u1 an ordinary user, u2 an
\* admin; u3 held a token and has no document any more.
InitUsers ==
    [u \in {"u1", "u2"} |->
        [id |-> u, role |-> IF u = "u2" THEN "admin" ELSE "user",
         password |-> "hash"]]

\* Bearer credentials a client may present.
Tokens == {"tokU1", "tokU2", "tokGone", "tokLogin", "tokBad", "tokExp"}

\* What the server would find in each credential: whether the signature
\* verifies under JWT_SECRET, whether it is past its expiry, and the payload.
\* tokLogin is the shape routes/auth.js signs: { user: { id } }, no userId.
TokenData(t) ==
    CASE t = "tokU1"    -> [sig |-> TRUE,  expired |-> FALSE, userId |-> "u1", user |-> Undefined]
      [] t = "tokU2"    -> [sig |-> TRUE,  expired |-> FALSE, userId |-> "u2", user |-> Undefined]
      [] t = "tokGone"  -> [sig |-> TRUE,  expired |-> FALSE, userId |-> "u3", user |-> Undefined]
      [] t = "tokLogin" -> [sig |-> TRUE,  expired |-> FALSE, userId |-> Undefined, user |-> "u1"]
      [] t = "tokBad"   -> [sig |-> FALSE, expired |-> FALSE, userId |-> "u1", user |-> Undefined]
      [] t = "tokExp"   -> [sig |-> TRUE,  expired |-> TRUE,  userId |-> "u1", user |-> Undefined]

\* An Authorization header is a string, modelled as the sequence of its
\* pieces: <<"Bearer ", t>>, the bare credential <<t>>, or another scheme.
Headers ==
    {NoHeader}
        \cup {<<"Bearer ", t>> : t \in Tokens}
        \cup {<<t>> : t \in Tokens}
        \cup {<<"Basic ", t>> : t \in Tokens}

(***************************************************************************)
(* middleware/auth.js                                                      *)
(***************************************************************************)
\* String.prototype.startsWith('Bearer ')
StartsWithBearer(h) == Len(h) > 0 /\ h[1] = "Bearer "

\* String.prototype.replace('Bearer ', ''): the first occurrence is removed.
RECURSIVE ReplaceBearer(_)
ReplaceBearer(h) ==
    IF h = <<>> THEN <<>>
    ELSE IF Head(h) = "Bearer " THEN Tail(h)
    ELSE <<Head(h)>> \o ReplaceBearer(Tail(h))

\* isTokenBlacklisted looking the whole header up, not the token.
isTokenBlacklistedByHeader(token, blacklist) == <<"Bearer ">> \o token \in blacklist

\* isTokenBlacklisted
isTokenBlacklisted(token, blacklist) == token \in blacklist

\* jwt.verify(token, JWT_SECRET): the decoded payload, or the error thrown.
\* A string that is not one credential is malformed.
JwtVerify(token) ==
    IF Len(token) # 1 \/ token[1] \notin Tokens
    THEN [ok |-> FALSE, name |-> "JsonWebTokenError"]
    ELSE LET d == TokenData(token[1]) IN
         IF ~d.sig THEN [ok |-> FALSE, name |-> "JsonWebTokenError"]
         ELSE IF d.expired THEN [ok |-> FALSE, name |-> "TokenExpiredError"]
         ELSE [ok |-> TRUE, userId |-> d.userId, user |-> d.user]

\* User.findById(id): the document, or null (here: NoUser).
NoUser == [id |-> Undefined]

UserFindById(us, id) == IF id \in DOMAIN us THEN us[id] ELSE NoUser

\* .select('-password')
SelectNoPassword(u) == [f \in DOMAIN u \ {"password"} |-> u[f]]

\* The middleware's outcome: next() called with req.user set, or a response.
Reject(code, msg) == [next |-> FALSE, status |-> code, error |-> msg, user |-> NoUser]
Proceed(u) == [next |-> TRUE, status |-> 0, error |-> "", user |-> u]

\* The missing user answered as adminAuth answers it.
AuthMissingUserUnauthorized == Reject(401, "Invalid token. User not found.")

AuthMissingUser == Reject(404, "User not found")

AuthNoUserId == Reject(401, "Invalid token: Missing user ID")

AuthRevoked == Reject(401, "Token has been invalidated")

\* const auth = async (req, res, next) => ...
auth(h, us, blacklist) ==
    IF h = NoHeader \/ ~StartsWithBearer(h)
    THEN Reject(401, "Access denied. No token provided.")
    ELSE LET token == ReplaceBearer(h) IN
         IF isTokenBlacklisted(token, blacklist) THEN AuthRevoked
         ELSE LET decoded == JwtVerify(token) IN
              IF ~decoded.ok
              THEN IF decoded.name = "JsonWebTokenError"
                   THEN Reject(401, "Invalid token.")
                   ELSE Reject(401, "Token expired.")
              ELSE IF decoded.userId = Undefined THEN AuthNoUserId
              ELSE LET user == UserFindById(us, decoded.userId) IN
                   IF user = NoUser THEN AuthMissingUser
                   ELSE Proceed(SelectNoPassword(user))

\* const optionalAuth = async (req, res, next) => ...
optionalAuth(h, us) ==
    LET token == ReplaceBearer(h) IN
    IF token = <<>> THEN Proceed(NoUser)
    ELSE LET decoded == JwtVerify(token) IN
         IF ~decoded.ok THEN Proceed(NoUser)
         ELSE LET user == UserFindById(us, decoded.userId) IN
              IF user = NoUser THEN Proceed(NoUser)
              ELSE Proceed(SelectNoPassword(user))

\* const adminAuth = async (req, res, next) => ...
adminAuth(h, us) ==
    LET token == ReplaceBearer(h) IN
    IF token = <<>> THEN Reject(401, "Access denied. No token provided.")
    ELSE LET decoded == JwtVerify(token) IN
         IF ~decoded.ok
         THEN IF decoded.name = "JsonWebTokenError"
              THEN Reject(401, "Invalid token.")
              ELSE Reject(401, "Token expired.")
         ELSE LET user == UserFindById(us, decoded.userId) IN
              IF user = NoUser THEN Reject(401, "Invalid token. User not found.")
              ELSE IF user.role # "admin"
              THEN Reject(403, "Access denied. Admin role required.")
              ELSE Proceed(SelectNoPassword(user))

(***************************************************************************)
(* The blogs collection (models/Blog.js is not part of the sources: the    *)
(* document's fields and its two methods follow the specification).        *)
(***************************************************************************)
PostIds == 1..MaxPosts
Times == 1..MaxClock

\* Blog.findById(id): the document, or null (here: NoDoc).
NoDoc == [exists |-> FALSE]

BlogFindById(bs, id) == IF id \in DOMAIN bs THEN bs[id] ELSE NoDoc

\* blogSchema.methods.incrementViews: one atomic increment of the counter.
incrementViews(bs, id) ==
    IF id \in DOMAIN bs THEN [bs EXCEPT ![id].views = @ + 1] ELSE bs

\* Array.prototype.includes on the likes array.
Includes(likes, uid) == \E i \in 1..Len(likes) : likes[i] = uid

\* Every occurrence of uid removed from the likes array ($pull).
RECURSIVE Pull(_, _)
Pull(likes, uid) ==
    IF likes = <<>> THEN <<>>
    ELSE IF Head(likes) = uid THEN Pull(Tail(likes), uid)
    ELSE <<Head(likes)>> \o Pull(Tail(likes), uid)

\* blogSchema.methods.toggleLike: membership of uid flipped in one atomic
\* update of the stored array.
toggleLike(likes, uid) ==
    IF Includes(likes, uid) THEN Pull(likes, uid) ELSE Append(likes, uid)

\* deleteFile is not imported by routes/blog.js: the call throws a
\* ReferenceError, which the handler's inner try/catch logs. The media store
\* is left as it was.
deleteFile(store, publicId) == store

(***************************************************************************)
(* Request bodies. A text is the sequence of its characters.               *)
(***************************************************************************)
TitleMin == 5
TitleMax == 200
ContentMin == 10
ExcerptMin == 10
ExcerptMax == 300
TagsMax == 10
TagMin == 1
TagMax == 20
GalleryMax == 20
WordsPerMinute == 200

Categories ==
    {"Technology", "Design", "Development", "Business", "Lifestyle", "Travel",
     "Food", "Health", "Education", "Entertainment", "Other"}

\* allowedUpdates
Fields ==
    {"title", "content", "excerpt", "category", "tags", "media", "mediaGallery",
     "status"}

\* A text of n characters c.
Repeat(c, n) == [i \in 1..n |-> c]

\* Titles of 4, 5 and 6 characters: "abab", "Ababa", "bbbbbb".
TitleInputs ==
    {<<"a", "b", "a", "b">>, <<"A", "b", "a", "b", "a">>, Repeat("b", 6)}

\* "ab ab ab a": ten characters, four words.
PlainContent == <<"a", "b", " ", "a", "b", " ", "a", "b", " ", "a">>

\* "bbbbbbbbbb": ten characters.
PlainExcerpt == Repeat("b", 10)

\* An array value a client sends, or a value that is not an array.
Array(items) == [array |-> TRUE, items |-> items]
NotArray == [array |-> FALSE, items |-> <<>>]

PlainTags == Array(<<Repeat("b", 2)>>)

PlainTitle == <<"A", "b", "a", "b", "a">>

StatusInputs == {"draft", "published", "archived"}
MediaInputs == {"m1"}

\* Keys of a post that a body may name and an update must not write.
ProtectedKeys == {"author", "likes", "comments", "views"}

\* What the client fills a create form with; a field a body does not name
\* (not in `has`) carries this filler, which nothing reads.
PlainBody ==
    [has |-> Fields \ {"media", "mediaGallery", "status"},
     title |-> PlainTitle, content |-> PlainContent, excerpt |-> PlainExcerpt,
     category |-> "Technology", tags |-> PlainTags, media |-> "m1",
     mediaGallery |-> Array(<<>>), status |-> "draft",
     author |-> "u2", likes |-> <<"u2">>, comments |-> <<"c">>, views |-> 7]

\* The bodies of the content routes: content, excerpt, category and tags as
\* the form fills them; title (of 4 or 5 characters), status and media
\* present or not.
Bodies ==
    {[PlainBody EXCEPT !.has = (@ \ {"title"}) \cup X, !.title = t, !.status = st]
        : <<X, t, st>> \in {y \in (SUBSET {"title", "status", "media"})
                                    \X {<<"a", "b", "a", "b">>, PlainTitle}
                                    \X StatusInputs :
                                /\ "title" \notin y[1] => y[2] = PlainTitle
                                /\ "status" \notin y[1] => y[3] = "draft"}}

\* Bodies that vary the status only.
StatusBodies ==
    {b \in Bodies : "status" \in b.has /\ "media" \notin b.has /\ b.title = PlainTitle
                        /\ "title" \in b.has}

\* validator isLength({ min, max }) on a text
IsLength(t, min, max) == min <= Len(t) /\ Len(t) <= max

\* body('title').isLength({ min: 5, max: 200 })
TitleOk(t) == IsLength(t, TitleMin, TitleMax)

\* body('content').isLength({ min: 10 })
ContentOk(t) == ContentMin <= Len(t)

\* body('excerpt').isLength({ min: 10, max: 300 })
ExcerptOk(t) == IsLength(t, ExcerptMin, ExcerptMax)

\* body('category').isIn([...])
CategoryOk(c) == c \in Categories

\* body('tags').isArray({ max: 10 })
TagsOk(v) == v.array /\ Len(v.items) <= TagsMax

\* body('tags.*').isLength({ min: 1, max: 20 }): every element of the array
TagItemsOk(v) == \A i \in 1..Len(v.items) : IsLength(v.items[i], TagMin, TagMax)

\* body('media').isObject(): a string is not an object
MediaOk(m) == m # "text"

\* body('mediaGallery').isArray({ max: 20 })
GalleryOk(v) == v.array /\ Len(v.items) <= GalleryMax

\* body('mediaGallery.*.type'), '.url', '.placement'
GalleryTypeOk(v) == \A i \in 1..Len(v.items) : v.items[i].type \in {"image", "video"}
GalleryUrlOk(v) == \A i \in 1..Len(v.items) : v.items[i].url # "notString"
GalleryPlacementOk(v) ==
    \A i \in 1..Len(v.items) : v.items[i].placement \in {"header", "inline", "footer"}

\* body('status').isIn(['draft', 'published'])
StatusOk(st) == st \in {"draft", "published"}

\* One validator of a chain: the message it adds unless the value passes. A
\* validator that is not .optional() runs on an absent field too, and fails.
Check(b, field, optional, ok, msg) ==
    IF field \notin b.has
    THEN IF optional THEN {} ELSE {msg}
    ELSE IF ok THEN {} ELSE {msg}

\* The validators on the elements of an array field run on what is there.
CheckItems(b, field, ok, msg) ==
    IF field \in b.has /\ ~ok THEN {msg} ELSE {}

\* The mediaGallery validators, the same in both chains.
ValidateGallery(b) ==
    CheckItems(b, "mediaGallery", GalleryTypeOk(b.mediaGallery),
               "Each media item type must be image or video")
    \cup CheckItems(b, "mediaGallery", GalleryUrlOk(b.mediaGallery),
                    "Each media item must have a url")
    \cup CheckItems(b, "mediaGallery", GalleryPlacementOk(b.mediaGallery),
                    "Placement must be header, inline, or footer")
    \cup Check(b, "mediaGallery", TRUE, GalleryOk(b.mediaGallery),
               "Media gallery must be an array (max 20 items)")

\* The validation chain of router.post('/'); the result is
\* validationResult(req).array(), as the set of its messages.
ValidateCreate(b) ==
    Check(b, "title", FALSE, TitleOk(b.title),
          "Title must be between 5 and 200 characters")
    \cup Check(b, "content", FALSE, ContentOk(b.content),
               "Content must be at least 10 characters")
    \cup Check(b, "excerpt", FALSE, ExcerptOk(b.excerpt),
               "Excerpt must be between 10 and 300 characters")
    \cup Check(b, "category", FALSE, CategoryOk(b.category), "Invalid category")
    \cup Check(b, "tags", FALSE, TagsOk(b.tags), "Maximum 10 tags allowed")
    \cup CheckItems(b, "tags", TagItemsOk(b.tags),
                    "Each tag must be between 1 and 20 characters")
    \cup Check(b, "media", TRUE, MediaOk(b.media), "Media must be an object")
    \cup ValidateGallery(b)
    \cup Check(b, "status", TRUE, StatusOk(b.status), "Invalid status")

\* The validation chain of router.put('/:id'): every validator is
\* .optional(), and there is none on the elements of tags.
ValidateUpdate(b) ==
    Check(b, "title", TRUE, TitleOk(b.title),
          "Title must be between 5 and 200 characters")
    \cup Check(b, "content", TRUE, ContentOk(b.content),
               "Content must be at least 10 characters")
    \cup Check(b, "excerpt", TRUE, ExcerptOk(b.excerpt),
               "Excerpt must be between 10 and 300 characters")
    \cup Check(b, "category", TRUE, CategoryOk(b.category), "Invalid category")
    \cup Check(b, "tags", TRUE, TagsOk(b.tags), "Maximum 10 tags allowed")
    \cup Check(b, "media", TRUE, MediaOk(b.media), "Media must be an object")
    \cup ValidateGallery(b)
    \cup Check(b, "status", TRUE, StatusOk(b.status), "Invalid status")

\* /\s/
IsSpace(c) == c = " "

\* The matches of /\s+/ in the text, each by the position it starts at: the
\* maximal runs of whitespace.
WhitespaceRuns(text) ==
    {i \in 1..Len(text) : IsSpace(text[i]) /\ (i = 1 \/ ~IsSpace(text[i - 1]))}

\* String.prototype.split(/\s+/).length: the text is cut at every match, so
\* there is one piece more than there are matches; a match at either end of
\* the text leaves an empty piece there, which counts.
SplitLength(text) == Cardinality(WhitespaceRuns(text)) + 1

\* Math.ceil(a / b) for a >= 0, b > 0
MathCeil(a, b) == (a + b - 1) \div b

\* const wordCount = content.split(/\s+/).length;
\* const readTime = Math.ceil(wordCount / 200);
readTime(content) == MathCeil(SplitLength(content), WordsPerMinute)

(***************************************************************************)
(* routes/blog.js: what each handler decides from the caller, the stored   *)
(* document and the body. A response is [status, error, errors].           *)
(***************************************************************************)
Resp(code, msg) == [status |-> code, error |-> msg, errors |-> {}]
Invalid(errs) == [status |-> 400, error |-> "", errors |-> errs]
NotFound == Resp(404, "Blog not found")

\* blogDoc.author._id.toString() !== req.user._id.toString(), with !req.user
IsOwner(user, doc) == user # NoUser /\ doc.author = user.id

\* Every read of a published post counted, the author's included.
GetCountsViewAnyCaller(user, doc) == doc.status = "published"

\* router.get('/:id'): the response, and whether incrementViews is called.
GetCountsView(user, doc) == doc.status = "published" /\ ~IsOwner(user, doc)

\* The draft hidden from anonymous callers only.
GetConcealsAnonymousOnly(user, doc) == doc.status # "published" /\ user = NoUser

GetConceals(user, doc) == doc.status # "published" /\ ~IsOwner(user, doc)

getBlog(user, doc) ==
    IF doc = NoDoc THEN [resp |-> NotFound, inc |-> FALSE]
    ELSE IF GetConceals(user, doc) THEN [resp |-> NotFound, inc |-> FALSE]
    ELSE [resp |-> Resp(200, ""), inc |-> GetCountsView(user, doc)]

\* blog.isLiked = blogDoc.likes.some(...), set only if (req.user)
DetailIsLiked(user, doc) ==
    IF user = NoUser THEN "absent"
    ELSE IF Includes(doc.likes, user.id) THEN "true" ELSE "false"

\* router.post('/'): new Blog({...}) as it is saved.
NewBlog(uid, b, now) ==
    LET status == IF "status" \in b.has THEN b.status ELSE "draft" IN
    [title |-> b.title,
     content |-> b.content,
     excerpt |-> b.excerpt,
     category |-> b.category,
     tags |-> b.tags.items,
     media |-> IF "media" \in b.has THEN b.media ELSE "none",
     mediaGallery |-> IF "mediaGallery" \in b.has THEN b.mediaGallery.items ELSE <<>>,
     status |-> status,
     author |-> uid,
     readTime |-> readTime(b.content),
     publishedAt |-> IF status = "published" THEN now ELSE Null,
     likes |-> <<>>,
     comments |-> <<>>,
     views |-> 0]

createBlog(a, b) ==
    IF ~a.next THEN Resp(a.status, a.error)
    ELSE IF ValidateCreate(b) # {} THEN Invalid(ValidateCreate(b))
    ELSE Resp(201, "")

\* router.put('/:id') without its ownership check.
updateBlogNoOwnerCheck(a, b, doc) ==
    IF ~a.next THEN Resp(a.status, a.error)
    ELSE IF ValidateUpdate(b) # {} THEN Invalid(ValidateUpdate(b))
    ELSE IF doc = NoDoc THEN NotFound
    ELSE Resp(200, "")

\* router.put('/:id'): the early returns, in the handler's order.
updateBlog(a, b, doc) ==
    IF ~a.next THEN Resp(a.status, a.error)
    ELSE IF ValidateUpdate(b) # {} THEN Invalid(ValidateUpdate(b))
    ELSE IF doc = NoDoc THEN NotFound
    ELSE IF doc.author # a.user.id
    THEN Resp(403, "Not authorized to update this blog")
    ELSE Resp(200, "")

\* publishedAt stamped on every update that names status 'published'.
PublishedAtOnEveryPublish(b, doc, now) ==
    IF "status" \in b.has /\ b.status = "published"
    THEN [set |-> TRUE, value |-> now]
    ELSE IF "status" \in b.has /\ b.status = "draft"
    THEN [set |-> TRUE, value |-> Null]
    ELSE [set |-> FALSE, value |-> Null]

\* filteredUpdates.publishedAt: set on a change to published, cleared on draft.
PublishedAtUpdate(b, doc, now) ==
    IF "status" \in b.has /\ b.status = "published" /\ doc.status # "published"
    THEN [set |-> TRUE, value |-> now]
    ELSE IF "status" \in b.has /\ b.status = "draft"
    THEN [set |-> TRUE, value |-> Null]
    ELSE [set |-> FALSE, value |-> Null]

\* filteredUpdates.readTime: recomputed if (filteredUpdates.content), that
\* is when content is present and not the empty string.
ReadTimeUpdate(b) ==
    IF "content" \in b.has /\ b.content # <<>>
    THEN [set |-> TRUE, value |-> readTime(b.content)]
    ELSE [set |-> FALSE, value |-> 0]

\* Every key of the body passed on to the store.
FilteredUpdatesAllKeys(b, doc, now) ==
    [has |-> b.has, title |-> b.title, content |-> b.content,
     excerpt |-> b.excerpt, category |-> b.category, tags |-> b.tags,
     media |-> b.media, mediaGallery |-> b.mediaGallery, status |-> b.status,
     author |-> b.author, likes |-> b.likes, comments |-> b.comments,
     views |-> b.views,
     publishedAt |-> PublishedAtUpdate(b, doc, now),
     readTime |-> ReadTimeUpdate(b)]

\* filteredUpdates: the allowed keys of the body, plus publishedAt and
\* readTime.
FilteredUpdates(b, doc, now) ==
    [has |-> b.has \cap Fields, title |-> b.title, content |-> b.content,
     excerpt |-> b.excerpt, category |-> b.category, tags |-> b.tags,
     media |-> b.media, mediaGallery |-> b.mediaGallery, status |-> b.status,
     author |-> b.author, likes |-> b.likes, comments |-> b.comments,
     views |-> b.views,
     publishedAt |-> PublishedAtUpdate(b, doc, now),
     readTime |-> ReadTimeUpdate(b)]

\* Blog.findByIdAndUpdate(id, filteredUpdates): $set of the keys it names.
ApplyUpdates(doc, u) ==
    [doc EXCEPT
        !.title = IF "title" \in u.has THEN u.title ELSE @,
        !.content = IF "content" \in u.has THEN u.content ELSE @,
        !.excerpt = IF "excerpt" \in u.has THEN u.excerpt ELSE @,
        !.category = IF "category" \in u.has THEN u.category ELSE @,
        !.tags = IF "tags" \in u.has THEN u.tags.items ELSE @,
        !.media = IF "media" \in u.has THEN u.media ELSE @,
        !.mediaGallery = IF "mediaGallery" \in u.has THEN u.mediaGallery.items ELSE @,
        !.status = IF "status" \in u.has THEN u.status ELSE @,
        !.author = IF "author" \in u.has THEN u.author ELSE @,
        !.likes = IF "likes" \in u.has THEN u.likes ELSE @,
        !.comments = IF "comments" \in u.has THEN u.comments ELSE @,
        !.views = IF "views" \in u.has THEN u.views ELSE @,
        !.publishedAt = IF u.publishedAt.set THEN u.publishedAt.value ELSE @,
        !.readTime = IF u.readTime.set THEN u.readTime.value ELSE @]

findByIdAndUpdate(bs, id, u) ==
    IF id \in DOMAIN bs THEN [bs EXCEPT ![id] = ApplyUpdates(@, u)] ELSE bs

\* The media store after the handler's attempt to delete the old file.
MediaAfterUpdate(store, b, doc) ==
    IF "media" \in b.has /\ doc.media # "none"
    THEN deleteFile(store, doc.media) ELSE store

\* router.delete('/:id'): the early returns.
deleteBlog(a, doc) ==
    IF ~a.next THEN Resp(a.status, a.error)
    ELSE IF doc = NoDoc THEN NotFound
    ELSE IF doc.author # a.user.id
    THEN Resp(403, "Not authorized to delete this blog")
    ELSE Resp(200, "")

MediaAfterDelete(store, doc) ==
    IF doc.media # "none" THEN deleteFile(store, doc.media) ELSE store

\* Blog.findByIdAndDelete(id)
findByIdAndDelete(bs, id) == [p \in DOMAIN bs \ {id} |-> bs[p]]

\* router.post('/:id/like') without its status check.
likeBlogAnyStatus(a, doc) ==
    IF ~a.next THEN Resp(a.status, a.error)
    ELSE IF doc = NoDoc THEN NotFound
    ELSE Resp(200, "")

\* router.post('/:id/like'): the early returns.
likeBlog(a, doc) ==
    IF ~a.next THEN Resp(a.status, a.error)
    ELSE IF doc = NoDoc THEN NotFound
    ELSE IF doc.status # "published" THEN NotFound
    ELSE Resp(200, "")

(***************************************************************************)
(* routes/blog.js: the listings. Numbers are JavaScript numbers, query     *)
(* parameters are strings or absent.                                       *)
(***************************************************************************)
MaxLimit == 100
DefaultLimit == 10
DefaultPage == 1

Num(n) == [kind |-> "num", n |-> n]
NaN == [kind |-> "NaN", n |-> 0]
Infinity == [kind |-> "Infinity", n |-> 0]

\* A query parameter: absent, the decimal digits of n, '', or a string with
\* no number in it ('abc').
Absent == [kind |-> "absent", n |-> 0]
Digits(n) == [kind |-> "digits", n |-> n]
EmptyString == [kind |-> "empty", n |-> 0]
NonNumeric == [kind |-> "text", n |-> 0]

\* const { page = 1 } = req.query: the default replaces undefined only.
OrDefault(v, d) == IF v = Absent THEN Num(d) ELSE v

\* parseInt(v)
parseInt(v) ==
    IF v.kind \in {"num", "digits"} THEN Num(v.n) ELSE NaN

\* ToNumber(v), as the operators * and - apply it: '' is 0.
ToNumber(v) ==
    IF v.kind \in {"num", "digits"} THEN Num(v.n)
    ELSE IF v.kind = "empty" THEN Num(0)
    ELSE NaN

\* Math.max, Math.min: NaN if either argument is.
MathMax(x, y) ==
    IF x.kind = "NaN" \/ y.kind = "NaN" THEN NaN
    ELSE IF x.n >= y.n THEN x ELSE y

MathMin(x, y) ==
    IF x.kind = "NaN" \/ y.kind = "NaN" THEN NaN
    ELSE IF x.n <= y.n THEN x ELSE y

\* x - y and x * y on finite numbers and NaN
Minus(x, y) ==
    IF x.kind = "NaN" \/ y.kind = "NaN" THEN NaN ELSE Num(x.n - y.n)

Mult(x, y) ==
    IF x.kind = "NaN" \/ y.kind = "NaN" THEN NaN ELSE Num(x.n * y.n)

\* Math.ceil(total / l) for a count total >= 0
CeilOfQuotient(total, l) ==
    IF l.kind = "NaN" THEN NaN
    ELSE IF l.n = 0 THEN (IF total = 0 THEN NaN ELSE Infinity)
    ELSE IF l.n > 0 THEN Num(MathCeil(total, l.n))
    ELSE Num(0 - (total \div (0 - l.n)))

\* const pageNum = Math.max(1, parseInt(page));
pageNum(q) == MathMax(Num(1), parseInt(OrDefault(q.page, DefaultPage)))

\* const limitNum = Math.min(100, Math.max(1, parseInt(limit)));
limitNum(q) ==
    MathMin(Num(MaxLimit), MathMax(Num(1), parseInt(OrDefault(q.limit, DefaultLimit))))

\* router.get('/user/:userId'): .limit(limit * 1).skip((page - 1) * limit)
userLimit(q) == Mult(ToNumber(OrDefault(q.limit, DefaultLimit)), Num(1))

userSkip(q) ==
    Mult(Minus(ToNumber(OrDefault(q.page, DefaultPage)), Num(1)),
         ToNumber(OrDefault(q.limit, DefaultLimit)))

\* A search string: absent, or a text.
NoSearch == [given |-> FALSE, text |-> <<>>]
Search(t) == [given |-> TRUE, text |-> t]

\* Case folding of the 'i' flag.
Lower(c) == IF c = "A" THEN "a" ELSE IF c = "B" THEN "b" ELSE c

\* new RegExp(search, 'i'): a pattern with an unclosed group does not
\* compile (SyntaxError).
RegexCompiles(pat) == \A i \in 1..Len(pat) : pat[i] # "("

\* The pattern matches the text at offset k: '.' stands for any character,
\* every other character for itself, case folded.
RegexMatchesAt(text, pat, k) ==
    \A j \in 1..Len(pat) : pat[j] = "." \/ Lower(pat[j]) = Lower(text[k + j])

\* { $regex: search, $options: 'i' }: the pattern matches somewhere.
RegexTest(text, pat) ==
    \E k \in 0..(Len(text) - Len(pat)) : RegexMatchesAt(text, pat, k)

\* query.$or: title, excerpt, content, or an element of tags.
SearchMatches(doc, search) ==
    \/ RegexTest(doc.title, search.text)
    \/ RegexTest(doc.excerpt, search.text)
    \/ RegexTest(doc.content, search.text)
    \/ \E i \in 1..Len(doc.tags) : RegexTest(doc.tags[i], search.text)

\* router.get('/'): the query's scope.
ListScope(user, myPosts) ==
    IF myPosts = "true" /\ user # NoUser
    THEN [by |-> "author", author |-> user.id]
    ELSE [by |-> "status", author |-> Undefined]

\* The status filter left out of the query.
InScopeAnyStatus(doc, scope) ==
    IF scope.by = "author" THEN doc.author = scope.author ELSE TRUE

InScope(doc, scope) ==
    IF scope.by = "author" THEN doc.author = scope.author
    ELSE doc.status = "published"

\* if (category && category !== 'all') query.category = category
InCategory(doc, category) ==
    category \in {Undefined, "", "all"} \/ doc.category = category

\* if (search) query.$or = [...]: the empty string is no search.
InSearch(doc, search) ==
    (search.given /\ search.text # <<>>) => SearchMatches(doc, search)

\* The documents the query of router.get('/') selects.
listBlogs(bs, user, myPosts, q) ==
    {p \in DOMAIN bs : /\ InScope(bs[p], ListScope(user, myPosts))
                       /\ InCategory(bs[p], q.category)
                       /\ InSearch(bs[p], q.search)}

\* sortOptions: publishedAt descending unless sort is 'oldest'; 'popular' and
\* 'trending' are views descending. p comes before r in the result; posts
\* with equal keys come in the order of their ids.
SortsBefore(bs, sort, p, r) ==
    LET key(x) == IF sort \in {"popular", "trending"} THEN bs[x].views
                  ELSE bs[x].publishedAt
    IN  IF key(p) = key(r) THEN p < r
        ELSE IF sort = "oldest" THEN key(p) < key(r)
        ELSE key(p) > key(r)

\* .sort(sortOptions) of the selected ids
RECURSIVE Sorted(_, _, _)
Sorted(bs, sort, ids) ==
    IF ids = {} THEN <<>>
    ELSE LET first == CHOOSE p \in ids :
                        \A r \in ids \ {p} : SortsBefore(bs, sort, p, r)
         IN  <<first>> \o Sorted(bs, sort, ids \ {first})

\* .limit(l).skip(k) on the sorted result, for k >= 0: a limit of 0 is no
\* limit, a negative limit is its absolute value.
Paginate(sorted, k, l) ==
    LET take == IF l = 0 THEN Len(sorted) ELSE IF l < 0 THEN 0 - l ELSE l
        to == IF k + take < Len(sorted) THEN k + take ELSE Len(sorted)
    IN  SubSeq(sorted, k + 1, to)

\* What the store makes of skip and limit: it rejects a negative skip; it may
\* reject a skip or limit that is not a number, or run the query without it.
StoreOutcomes(k, l) ==
    IF k.kind # "num" \/ l.kind # "num" THEN {"ok", "error"}
    ELSE IF k.n < 0 THEN {"error"}
    ELSE {"ok"}

\* The page the store returns when it runs the query.
PageOf(sorted, k, l) ==
    IF k.kind # "num" \/ l.kind # "num" THEN sorted
    ELSE Paginate(sorted, k.n, l.n)

Range(seq) == {seq[i] : i \in 1..Len(seq)}

CommentMin == 1
CommentMax == 1000

\* A comment request body: content absent, empty, of 1, 1000 and 1001
\* characters.
CommentBodies ==
    {[has |-> {}, content |-> <<>>]}
        \cup {[has |-> {"content"}, content |-> t]
                : t \in {<<>>, <<"c">>, Repeat("c", CommentMax),
                         Repeat("c", CommentMax + 1)}}

\* body('content').isLength({ min: 1, max: 1000 })
ValidateComment(b) ==
    Check(b, "content", FALSE, IsLength(b.content, CommentMin, CommentMax),
          "Comment must be between 1 and 1000 characters")

\* router.post('/:id/comments') without its status check.
addCommentAnyStatus(a, b, doc) ==
    IF ~a.next THEN Resp(a.status, a.error)
    ELSE IF ValidateComment(b) # {} THEN Invalid(ValidateComment(b))
    ELSE IF doc = NoDoc THEN NotFound
    ELSE Resp(201, "")

\* router.post('/:id/comments'): the early returns, in the handler's order.
addComment(a, b, doc) ==
    IF ~a.next THEN Resp(a.status, a.error)
    ELSE IF ValidateComment(b) # {} THEN Invalid(ValidateComment(b))
    ELSE IF doc = NoDoc THEN NotFound
    ELSE IF doc.status # "published" THEN NotFound
    ELSE Resp(201, "")

\* const comment = { user: req.user._id, content: req.body.content }
NewComment(uid, b) == [user |-> uid, content |-> b.content]

\* blog.comments.push(comment); await blog.save(): the push reaches the store.
PushComment(bs, id, comment) ==
    IF id \in DOMAIN bs THEN [bs EXCEPT ![id].comments = Append(@, comment)] ELSE bs

\* The values line 117 compares: the elements of a .lean() likes array are
\* ObjectId objects as the driver built them, req.user.id is a string.
ObjectId(u) == [type |-> "ObjectId", of |-> u]
IdString(u) == [type |-> "string", of |-> u]

\* SameValueZero, the comparison of Array.prototype.includes: strings by
\* value, objects by identity, and an object the driver has just built is
\* identical to nothing the caller holds.
SameValueZero(x, y) == x.type = "string" /\ y.type = "string" /\ x.of = y.of

\* blogObj.isLiked = req.user ? (blog.likes || []).includes(req.user.id) : false
ListIsLiked(user, doc) ==
    /\ user # NoUser
    /\ \E i \in 1..Len(doc.likes) :
            SameValueZero(ObjectId(doc.likes[i]), IdString(user.id))

\* router.get('/my-posts'): Blog.find({ author: req.user._id })
myPostsOf(bs, uid) == {p \in DOMAIN bs : bs[p].author = uid}

\* router.get('/user/:userId'): Blog.find({ author, status: 'published' })
userBlogs(bs, uid) ==
    {p \in DOMAIN bs : bs[p].author = uid /\ bs[p].status = "published"}

\* The query of a request that names no parameter.
NoQuery ==
    [page |-> Absent, limit |-> Absent, category |-> Undefined,
     search |-> NoSearch, sort |-> Undefined]

(***************************************************************************)
(* The state after the server has started on a store holding two users.    *)
(***************************************************************************)
Slots == 1..MaxInflight
Likers == {"u1", "u2"}

\* The headers the blog routes are driven with: no caller, u1, u2.
BlogHeaders == {NoHeader, <<"Bearer ", "tokU1">>, <<"Bearer ", "tokU2">>}

\* useAuth() of a visitor who has not logged in.
NoSession == [isAuthenticated |-> FALSE, token |-> "none", user |-> Undefined]

(***************************************************************************)
(* The client's pages: BlogGrid, Explore, MyPosts and the AuthProvider,    *)
(* before they mount.                                                      *)
(***************************************************************************)
\* localStorage.getItem of an absent item, and the null of a token state.
NoItem == "null"

\* BlogGrid's props as Index passes them (searchQuery is left empty), and
\* the props of no render.
GridProps == [category : {Undefined, "Design"}, sort : {"newest", "oldest"},
              page : 1..2]
NoProps == [category |-> Undefined, sort |-> Undefined, page |-> 0]

\* useState([]), useState(true), useState(null), useState(true),
\* useState(0), useRef(false); shownFor is history: the props of the request
\* whose response the list was last written from.
GridUnmounted ==
    [mounted |-> FALSE, alive |-> TRUE, props |-> NoProps, blogs |-> <<>>,
     isLoading |-> TRUE, error |-> Undefined, hasMore |-> TRUE,
     totalCount |-> 0, loadingRef |-> FALSE, shownFor |-> NoProps]

\* Explore's search params (page, category) and state.
ExploreParams == [page : 1..2, category : {"", "Design"}]
ExploreUnmounted ==
    [mounted |-> FALSE, params |-> [page |-> 0, category |-> ""],
     blogs |-> <<>>, loading |-> TRUE, totalPages |-> 1, totalBlogs |-> 0,
     categories |-> {}, shownFor |-> [page |-> 0, category |-> ""]]

MyPostsUnmounted ==
    [mounted |-> FALSE, posts |-> <<>>, loading |-> TRUE, error |-> Undefined]

NoRequests == [issued |-> 0, open |-> <<>>]

\* AuthProvider's useState(null), useState(localStorage.getItem('token')),
\* useState(true), useState(null); effectFor is the token the effect on
\* [token] last ran for (Undefined before the first run).
ProviderState(stored) ==
    [user |-> Undefined, token |-> stored, loading |-> TRUE,
     error |-> Undefined, effectFor |-> Undefined]

ViewsInit ==
    /\ grid = GridUnmounted
    /\ explore = ExploreUnmounted
    /\ myPostsPage = MyPostsUnmounted
    /\ pending = NoRequests
    /\ localStorage = [token |-> NoItem]
    /\ authState = ProviderState(NoItem)

Init ==
    /\ users = InitUsers
    /\ tokenBlacklist = {}
    /\ blogs = [p \in {} |-> NoDoc]
    /\ nextId = 1
    /\ mediaStore = MediaInputs
    /\ inflight = [s \in Slots |-> Idle]
    /\ toggles = [p \in PostIds |-> [u \in Likers |-> 0]]
    /\ reads = [p \in PostIds |-> 0]
    /\ last = [op |-> "init"]
    /\ likedState = [isLiked |-> FALSE, likesCount |-> 0]
    /\ session = NoSession
    /\ ViewsInit

Busy == {s \in Slots : inflight[s] # Idle}

\* The slot a new continuation takes.
FreeSlot == CHOOSE s \in Slots \ Busy : \A t \in Slots \ Busy : s <= t

Flip(n) == 1 - n

(***************************************************************************)
(* middleware/auth.js as a protected route runs it.                        *)
(***************************************************************************)
\* blacklistToken(token)
BlacklistToken(t) ==
    /\ tokenBlacklist' = tokenBlacklist \cup {<<t>>}
    /\ last' = [op |-> "blacklist", token |-> t]
    /\ UNCHANGED <<views, likedState, session, users, blogs, nextId, mediaStore, inflight, toggles, reads>>

\* A request to a route behind `auth`: the handler runs iff next() is called.
AuthRequest(h) ==
    LET a == auth(h, users, tokenBlacklist) IN
    /\ last' = [op |-> "auth", hdr |-> h, ran |-> a.next, status |-> a.status,
                error |-> a.error, user |-> a.user]
    /\ UNCHANGED <<views, likedState, session, users, tokenBlacklist, blogs, nextId, mediaStore, inflight,
                   toggles, reads>>

\* A request to a route behind `adminAuth`; what `auth` makes of the same
\* request is recorded beside it.
AdminRequest(h) ==
    LET d == adminAuth(h, users)
        a == auth(h, users, tokenBlacklist)
    IN  /\ last' = [op |-> "adminAuth", hdr |-> h, ran |-> d.next,
                    status |-> d.status, error |-> d.error, user |-> d.user,
                    authRan |-> a.next, authStatus |-> a.status,
                    authUser |-> a.user]
        /\ UNCHANGED <<views, likedState, session, users, tokenBlacklist, blogs, nextId, mediaStore, inflight,
                       toggles, reads>>

\* A request to a route behind `optionalAuth`.
OptionalRequest(h) ==
    LET o == optionalAuth(h, users) IN
    /\ last' = [op |-> "optionalAuth", hdr |-> h, ran |-> o.next,
                status |-> o.status, error |-> o.error, user |-> o.user]
    /\ UNCHANGED <<views, likedState, session, users, tokenBlacklist, blogs, nextId, mediaStore, inflight,
                   toggles, reads>>

(***************************************************************************)
(* routes/blog.js: one step per request.                                   *)
(***************************************************************************)
\* router.post('/', auth, ...)
CreateBlog(h, b, now) ==
    LET a == auth(h, users, tokenBlacklist)
        r == createBlog(a, b)
        made == r.status = 201
    IN  /\ made => nextId <= MaxPosts
        /\ blogs' = IF made THEN blogs @@ (nextId :> NewBlog(a.user.id, b, now))
                    ELSE blogs
        /\ nextId' = IF made THEN nextId + 1 ELSE nextId
        /\ last' = [op |-> "create", caller |-> a.user.id,
                    post |-> IF made THEN nextId ELSE 0,
                    pre |-> NoDoc, body |-> b, resp |-> r]
        /\ UNCHANGED <<views, likedState, session, users, tokenBlacklist, mediaStore, inflight, toggles, reads>>

\* router.get('/:id', optionalAuth, ...)
GetBlog(h, id) ==
    LET a == optionalAuth(h, users)
        doc == BlogFindById(blogs, id)
        g == getBlog(a.user, doc)
        qualifies == /\ doc # NoDoc
                     /\ doc.status = "published"
                     /\ a.user.id # doc.author
    IN  /\ g.inc => doc.views < MaxViews
        /\ blogs' = IF g.inc THEN incrementViews(blogs, id) ELSE blogs
        /\ reads' = IF qualifies THEN [reads EXCEPT ![id] = @ + 1] ELSE reads
        /\ last' = [op |-> "get", caller |-> a.user.id, post |-> id, pre |-> doc,
                    resp |-> g.resp,
                    isLiked |-> IF g.resp.status = 200
                                THEN DetailIsLiked(a.user, doc) ELSE "absent",
                    views |-> IF g.resp.status = 200
                              THEN BlogFindById(blogs', id).views ELSE 0]
        /\ UNCHANGED <<views, likedState, session, users, tokenBlacklist, nextId, mediaStore, inflight, toggles>>

\* router.get('/', optionalAuth, ...). `store` is what the store makes of
\* the query's skip and limit.
ListBlogs(h, myPosts, q, store) ==
    LET a == optionalAuth(h, users)
        l == limitNum(q)
        k == Mult(Minus(pageNum(q), Num(1)), l)
        compiles == ~(q.search.given /\ q.search.text # <<>>)
                        \/ RegexCompiles(q.search.text)
        ok == compiles /\ store = "ok"
        found == IF compiles THEN listBlogs(blogs, a.user, myPosts, q) ELSE {}
        items == IF ok THEN PageOf(Sorted(blogs, q.sort, found), k, l) ELSE <<>>
    IN  /\ store \in StoreOutcomes(k, l)
        /\ last' = [op |-> "list", caller |-> a.user.id, myPosts |-> myPosts,
                    query |-> q, pageNum |-> pageNum(q), limitNum |-> l, skip |-> k,
                    items |-> items, result |-> Range(items),
                    isLiked |-> [p \in Range(items) |-> ListIsLiked(a.user, blogs[p])],
                    total |-> IF ok THEN Cardinality(found) ELSE 0,
                    totalPages |-> IF ok THEN CeilOfQuotient(Cardinality(found), l)
                                   ELSE NaN,
                    resp |-> IF ok THEN Resp(200, "")
                             ELSE Resp(500, "Failed to fetch blogs. Please try again later.")]
        /\ UNCHANGED <<views, likedState, session, users, tokenBlacklist, blogs, nextId, mediaStore, inflight,
                       toggles, reads>>

\* router.get('/my-posts', auth, ...)
MyPosts(h) ==
    LET a == auth(h, users, tokenBlacklist) IN
    /\ last' = [op |-> "myPosts", caller |-> a.user.id, myPosts |-> Undefined,
                result |-> IF a.next THEN myPostsOf(blogs, a.user.id) ELSE {},
                resp |-> IF a.next THEN Resp(200, "") ELSE Resp(a.status, a.error)]
    /\ UNCHANGED <<views, likedState, session, users, tokenBlacklist, blogs, nextId, mediaStore, inflight,
                   toggles, reads>>

\* router.get('/user/:userId', ...)
ListUserBlogs(uid, q, store) ==
    LET l == userLimit(q)
        k == userSkip(q)
        ok == store = "ok"
        found == userBlogs(blogs, uid)
        items == IF ok THEN PageOf(Sorted(blogs, "newest", found), k, l) ELSE <<>>
    IN  /\ store \in StoreOutcomes(k, l)
        /\ last' = [op |-> "userBlogs", caller |-> Undefined, myPosts |-> Undefined,
                    query |-> q, pageNum |-> ToNumber(OrDefault(q.page, DefaultPage)),
                    limitNum |-> l, skip |-> k,
                    items |-> items, result |-> Range(items),
                    total |-> IF ok THEN Cardinality(found) ELSE 0,
                    totalPages |-> IF ok
                                   THEN CeilOfQuotient(Cardinality(found),
                                            ToNumber(OrDefault(q.limit, DefaultLimit)))
                                   ELSE NaN,
                    resp |-> IF ok THEN Resp(200, "") ELSE Resp(500, "Server error")]
        /\ UNCHANGED <<views, likedState, session, users, tokenBlacklist, blogs, nextId, mediaStore, inflight,
                       toggles, reads>>

\* router.put('/:id', auth, ...)
UpdateBlog(h, id, b, now) ==
    LET a == auth(h, users, tokenBlacklist)
        doc == BlogFindById(blogs, id)
        r == updateBlog(a, b, doc)
        go == r.status = 200
    IN  /\ blogs' = IF go THEN findByIdAndUpdate(blogs, id, FilteredUpdates(b, doc, now))
                    ELSE blogs
        /\ mediaStore' = IF go THEN MediaAfterUpdate(mediaStore, b, doc)
                         ELSE mediaStore
        /\ last' = [op |-> "update", caller |-> a.user.id, post |-> id,
                    pre |-> doc, preMedia |-> mediaStore, body |-> b, resp |-> r]
        /\ UNCHANGED <<views, likedState, session, users, tokenBlacklist, nextId, inflight, toggles, reads>>

\* router.delete('/:id', auth, ...)
DeleteBlog(h, id) ==
    LET a == auth(h, users, tokenBlacklist)
        doc == BlogFindById(blogs, id)
        r == deleteBlog(a, doc)
        go == r.status = 200
    IN  /\ blogs' = IF go THEN findByIdAndDelete(blogs, id) ELSE blogs
        /\ mediaStore' = IF go THEN MediaAfterDelete(mediaStore, doc) ELSE mediaStore
        /\ last' = [op |-> "delete", caller |-> a.user.id, post |-> id,
                    pre |-> doc, preMedia |-> mediaStore, resp |-> r]
        /\ UNCHANGED <<views, likedState, session, users, tokenBlacklist, nextId, inflight, toggles, reads>>

\* router.post('/:id/comments', auth, ...)
AddComment(h, id, b) ==
    LET a == auth(h, users, tokenBlacklist)
        doc == BlogFindById(blogs, id)
        r == addComment(a, b, doc)
        go == r.status = 201
        comment == NewComment(a.user.id, b)
    IN  /\ go => Len(doc.comments) < MaxComments
        /\ blogs' = IF go THEN PushComment(blogs, id, comment) ELSE blogs
        /\ last' = [op |-> "comment", caller |-> a.user.id, post |-> id,
                    pre |-> doc, body |-> b, resp |-> r,
                    comment |-> IF go
                                THEN blogs'[id].comments[Len(blogs'[id].comments)]
                                ELSE NewComment(Undefined, b)]
        /\ UNCHANGED <<views, likedState, session, users, tokenBlacklist, nextId, mediaStore, inflight,
                       toggles, reads>>

\* router.post('/:id/like', auth, ...) up to `await blog.toggleLike(...)`:
\* the early returns, or the loaded document kept for the second half.
LikeRead(h, id) ==
    LET a == auth(h, users, tokenBlacklist)
        doc == BlogFindById(blogs, id)
        r == likeBlog(a, doc)
        go == r.status = 200
    IN  /\ go => Busy # Slots
        /\ inflight' = IF go
                       THEN [inflight EXCEPT ![FreeSlot] =
                                [kind |-> "like", post |-> id, user |-> a.user.id,
                                 likes |-> doc.likes]]
                       ELSE inflight
        /\ last' = [op |-> "likeRead", caller |-> a.user.id, post |-> id,
                    pre |-> doc, resp |-> r, go |-> go]
        /\ UNCHANGED <<views, likedState, session, users, tokenBlacklist, blogs, nextId, mediaStore, toggles, reads>>

\* The handler toggling the copy it loaded and storing that.
LikeStoreWriteStale(stored, loaded, uid) == toggleLike(loaded, uid)

\* The stored likes array after the handler's one call of blog.toggleLike.
LikeStoreWrite(stored, loaded, uid) == toggleLike(stored, uid)

\* The rest of the handler: toggleLike reaches the store, the response is
\* built from the document it refreshed. If the post was deleted meanwhile
\* there is nothing to update, and the handler answers 200 or 500.
LikeWrite(s, gone) ==
    LET c == inflight[s]
        there == c.post \in DOMAIN blogs
        pre == BlogFindById(blogs, c.post)
        likes == IF there THEN LikeStoreWrite(pre.likes, c.likes, c.user) ELSE c.likes
    IN  /\ c # Idle
        /\ c.kind = "like"
        /\ there => gone = 200
        /\ blogs' = IF there THEN [blogs EXCEPT ![c.post].likes = likes] ELSE blogs
        /\ toggles' = IF there THEN [toggles EXCEPT ![c.post][c.user] = Flip(@)]
                      ELSE toggles
        /\ inflight' = [inflight EXCEPT ![s] = Idle]
        /\ last' = [op |-> "likeWrite", caller |-> c.user, post |-> c.post,
                    pre |-> pre, stale |-> there /\ c.likes # pre.likes,
                    resp |-> IF gone = 200 THEN Resp(200, "")
                             ELSE Resp(500, "Server error"),
                    isLiked |-> Includes(likes, c.user),
                    likeCount |-> Len(likes)]
        /\ UNCHANGED <<views, likedState, session, users, tokenBlacklist, nextId, mediaStore, reads>>

\* new Date() is read only when a post becomes published.
NowFor(b) == IF "status" \in b.has /\ b.status = "published" THEN Times ELSE {1}

Next ==
    \/ \E h \in BlogHeaders, b \in Bodies : \E now \in NowFor(b) : CreateBlog(h, b, now)
    \/ \E h \in BlogHeaders, id \in PostIds : GetBlog(h, id)
    \/ \E h \in BlogHeaders, m \in {Undefined, "true", "false"} :
            ListBlogs(h, m, NoQuery, "ok")
    \/ \E h \in BlogHeaders : MyPosts(h)
    \/ \E u \in UserIds : ListUserBlogs(u, NoQuery, "ok")
    \/ \E h \in BlogHeaders, id \in PostIds, b \in Bodies : \E now \in NowFor(b) :
            UpdateBlog(h, id, b, now)
    \/ \E h \in BlogHeaders, id \in PostIds : DeleteBlog(h, id)

Spec == Init /\ [][Next]_vars

LikeNext ==
    \/ \E h \in BlogHeaders, b \in StatusBodies : \E now \in NowFor(b) :
            CreateBlog(h, b, now)
    \/ \E h \in BlogHeaders, id \in PostIds, b \in StatusBodies : \E now \in NowFor(b) :
            UpdateBlog(h, id, b, now)
    \/ \E h \in BlogHeaders, id \in PostIds : DeleteBlog(h, id)
    \/ \E h \in BlogHeaders, id \in PostIds : LikeRead(h, id)
    \/ \E h \in BlogHeaders : ListBlogs(h, Undefined, NoQuery, "ok")
    \/ \E s \in Slots, gone \in {200, 500} : LikeWrite(s, gone)

LikeSpec == Init /\ [][LikeNext]_vars

(***************************************************************************)
(* The listings over a store that already holds posts. The posts are what  *)
(* router.post('/') saved: one whose title and content hold "ab", one that *)
(* holds "ab" in a tag only, one that holds no "a" at all, and a draft.    *)
(***************************************************************************)
PageDocs ==
    {NewBlog("u1", [PlainBody EXCEPT !.has = @ \cup {"status"},
                                     !.status = "published"], 1),
     NewBlog("u2", [PlainBody EXCEPT !.has = @ \cup {"status"},
                                     !.status = "published",
                                     !.title = Repeat("b", 6),
                                     !.content = Repeat("b", 10),
                                     !.category = "Design",
                                     !.tags = Array(<<<<"a", "b">>>>)], 2),
     NewBlog("u1", [PlainBody EXCEPT !.has = @ \cup {"status"},
                                     !.status = "published",
                                     !.title = Repeat("b", 6),
                                     !.content = Repeat("b", 10)], 2),
     NewBlog("u1", PlainBody, 1)}

PageStores == UNION {[1..n -> PageDocs] : n \in 0..MaxListed}

PageInit ==
    /\ users = InitUsers
    /\ tokenBlacklist = {}
    /\ blogs \in PageStores
    /\ nextId = Cardinality(DOMAIN blogs) + 1
    /\ mediaStore = MediaInputs
    /\ inflight = [s \in Slots |-> Idle]
    /\ toggles = [p \in PostIds |-> [u \in Likers |-> 0]]
    /\ reads = [p \in PostIds |-> 0]
    /\ last = [op |-> "init"]
    /\ likedState = [isLiked |-> FALSE, likesCount |-> 0]
    /\ session = NoSession
    /\ ViewsInit

PageInputs == {Absent, EmptyString, Digits(0), Digits(2), NonNumeric}
LimitInputs == {Absent, Digits(0), Digits(1), Digits(2), Digits(101), NonNumeric}

\* The searches "a", "ab", "a.a" and "(".
SearchInputs ==
    {NoSearch, Search(<<"a">>), Search(<<"a", "b">>), Search(<<"a", ".", "a">>),
     Search(<<"(">>)}

\* Queries that vary page and limit only.
PagingQueries ==
    {[NoQuery EXCEPT !.page = pg, !.limit = lm]
        : <<pg, lm>> \in PageInputs \X LimitInputs}

\* Queries that search, on the first and second page of 1, 2 or 10 posts.
SearchQueries ==
    {[NoQuery EXCEPT !.page = pl[1], !.limit = pl[2], !.search = sr]
        : <<pl, sr>> \in {<<Absent, Absent>>, <<Absent, Digits(1)>>,
                          <<Digits(2), Digits(1)>>, <<Digits(2), Digits(2)>>}
                            \X (SearchInputs \ {NoSearch})}

\* Queries that name a category or a sort order.
FilterQueries ==
    {[NoQuery EXCEPT !.category = c, !.sort = so]
        : <<c, so>> \in {Undefined, "all", "Design"} \X {Undefined, "oldest"}}

Queries == PagingQueries \cup SearchQueries \cup FilterQueries

\* The callers of the listing: anonymous, and u1 asking for its own posts.
PageCallers == {<<NoHeader, Undefined>>, <<<<"Bearer ", "tokU1">>, "true">>}

PageNext ==
    \/ \E c \in PageCallers, q \in Queries, store \in {"ok", "error"} :
            ListBlogs(c[1], c[2], q, store)
    \/ \E u \in {"u1", "u2"}, q \in PagingQueries, store \in {"ok", "error"} :
            ListUserBlogs(u, q, store)

PageSpec == PageInit /\ [][PageNext]_vars

(***************************************************************************)
(* The comment route, on posts that are created, published and withdrawn. *)
(***************************************************************************)
CommentNext ==
    \/ \E h \in BlogHeaders, b \in StatusBodies : \E now \in NowFor(b) :
            CreateBlog(h, b, now)
    \/ \E h \in BlogHeaders, id \in PostIds, b \in StatusBodies : \E now \in NowFor(b) :
            UpdateBlog(h, id, b, now)
    \/ \E h \in BlogHeaders, id \in PostIds, b \in CommentBodies : AddComment(h, id, b)

CommentSpec == Init /\ [][CommentNext]_vars

(***************************************************************************)
(* Create and update by the author, each body varying one field over the  *)
(* values its validators tell apart.                                       *)
(***************************************************************************)
\* 200 words of one letter, a space before each: 400 characters.
LongContent == [i \in 1..(2 * WordsPerMinute) |-> IF i % 2 = 1 THEN " " ELSE "b"]

GalleryItem == [type |-> "image", url |-> "u", placement |-> "header"]

FieldInputs(f) ==
    CASE f = "title" -> TitleInputs \cup {Repeat("b", TitleMax + 1)}
      [] f = "content" -> {PlainContent, Repeat("b", ContentMin - 1),
                           Repeat(" ", ContentMin), LongContent}
      [] f = "excerpt" -> {PlainExcerpt, Repeat("b", ExcerptMin - 1),
                           Repeat("b", ExcerptMax + 1)}
      [] f = "category" -> {"Technology", "Sports"}
      [] f = "tags" -> {PlainTags, Array(Repeat(<<"b">>, TagsMax + 1)),
                        Array(<<Repeat("b", TagMax + 1)>>), Array(<<<<>>>>), NotArray}
      [] f = "media" -> {"m1", "text"}
      [] f = "mediaGallery" ->
            {Array(<<GalleryItem>>),
             Array(<<[GalleryItem EXCEPT !.type = "audio"]>>),
             Array(<<[GalleryItem EXCEPT !.url = "notString"]>>),
             Array(<<[GalleryItem EXCEPT !.placement = "top"]>>),
             Array(Repeat(GalleryItem, GalleryMax + 1)), NotArray}
      [] f = "status" -> StatusInputs

\* The create form with one field changed.
CreateInputs ==
    UNION {{[PlainBody EXCEPT !.has = @ \cup {f}, ![f] = v] : v \in FieldInputs(f)}
                : f \in Fields}

\* An edit that sends one field, and edits that name protected keys.
UpdateInputs ==
    UNION {{[PlainBody EXCEPT !.has = {f}, ![f] = v] : v \in FieldInputs(f)}
                : f \in Fields}
        \cup {[PlainBody EXCEPT !.has = X \cup ProtectedKeys]
                : X \in {{}, {"title"}, {"status"}}}

EditNext ==
    \/ \E b \in CreateInputs : \E now \in NowFor(b) :
            CreateBlog(<<"Bearer ", "tokU1">>, b, now)
    \/ \E id \in PostIds, b \in UpdateInputs : \E now \in NowFor(b) :
            UpdateBlog(<<"Bearer ", "tokU1">>, id, b, now)

EditSpec == Init /\ [][EditNext]_vars

(***************************************************************************)
(* client/src/components/BlogCard.jsx: the like button of the card of      *)
(* post 1, against the like route. A click leaves its continuation (the    *)
(* code after `await fetch`) in `inflight` until the response is there.    *)
(***************************************************************************)
\* The state after a failed request put back to something else than the
\* state at the click: the optimistic state is kept.
afterResponseKeep(state, originalState, ok) == state

\* handleLike after `await fetch(...)`: !response.ok throws, and the catch
\* block, which a rejected fetch reaches as well, restores originalState.
afterResponse(state, originalState, ok) == IF ok THEN state ELSE originalState

\* Math.max(0, n)
AtLeastZero(n) == IF n < 0 THEN 0 ELSE n

\* handleLike up to setLikedState: the optimistic state.
optimistic(state) ==
    LET newLikedState == ~state.isLiked
        newLikesCount == IF newLikedState THEN state.likesCount + 1
                         ELSE AtLeastZero(state.likesCount - 1)
    IN  [isLiked |-> newLikedState, likesCount |-> newLikesCount]

\* response.ok
ResponseOk(status) == status \in 200..299

\* The post the card shows, published by u1, liked by u2 or by nobody.
CardPost(likes) ==
    [NewBlog("u1", [PlainBody EXCEPT !.has = @ \cup {"status"},
                                     !.status = "published"], 1)
        EXCEPT !.likes = likes]

\* The card as it is mounted: u2 logged in with the card showing what the
\* server holds, or a visitor who is not logged in.
ClientInit ==
    /\ users = InitUsers
    /\ tokenBlacklist = {}
    /\ \E likes \in {<<>>, <<"u2">>}, in \in BOOLEAN :
            /\ blogs = (1 :> CardPost(likes))
            /\ toggles = [p \in PostIds |->
                            [u \in Likers |-> IF u = "u2" /\ likes # <<>> THEN 1 ELSE 0]]
            /\ session = IF in
                         THEN [isAuthenticated |-> TRUE, token |-> "tokU2", user |-> "u2"]
                         ELSE NoSession
            /\ likedState = [isLiked |-> in /\ likes # <<>>, likesCount |-> Len(likes)]
    /\ nextId = 2
    /\ mediaStore = MediaInputs
    /\ inflight = [s \in Slots |-> Idle]
    /\ reads = [p \in PostIds |-> 0]
    /\ last = [op |-> "init"]
    /\ ViewsInit

\* handleLike, to its `await fetch(...)`.
HandleLike ==
    IF ~session.isAuthenticated
    THEN /\ last' = [op |-> "click", atClick |-> likedState, sent |-> FALSE,
                     slot |-> 0]
         /\ UNCHANGED <<views, likedState, session, users, tokenBlacklist, blogs, nextId,
                        mediaStore, inflight, toggles, reads>>
    ELSE /\ Busy # Slots
         /\ likedState' = optimistic(likedState)
         /\ inflight' = [inflight EXCEPT ![FreeSlot] =
                            [kind |-> "fetch", post |-> 1,
                             hdr |-> <<"Bearer ", session.token>>,
                             originalState |-> likedState,
                             stage |-> "sent", ok |-> FALSE]]
         /\ last' = [op |-> "click", atClick |-> likedState, sent |-> TRUE,
                     slot |-> FreeSlot]
         /\ UNCHANGED <<views, session, users, tokenBlacklist, blogs, nextId, mediaStore,
                        toggles, reads>>

\* The request in slot s on the network and in router.post('/:id/like'): it
\* is lost on the way, or the handler runs and its response arrives, or the
\* handler runs and its response is lost.
ServeLike(s, net) ==
    LET c == inflight[s]
        a == auth(c.hdr, users, tokenBlacklist)
        doc == BlogFindById(blogs, c.post)
        r == likeBlog(a, doc)
        go == net # "requestLost" /\ r.status = 200
    IN  /\ c # Idle
        /\ c.kind = "fetch"
        /\ c.stage = "sent"
        /\ blogs' = IF go
                    THEN [blogs EXCEPT ![c.post].likes =
                            LikeStoreWrite(doc.likes, doc.likes, a.user.id)]
                    ELSE blogs
        /\ toggles' = IF go THEN [toggles EXCEPT ![c.post][a.user.id] = Flip(@)]
                      ELSE toggles
        /\ inflight' = [inflight EXCEPT ![s] =
                            [c EXCEPT !.stage = "answered",
                                      !.ok = net = "delivered" /\ ResponseOk(r.status)]]
        /\ last' = [op |-> "serve", net |-> net, applied |-> go, slot |-> s]
        /\ UNCHANGED <<views, likedState, session, users, tokenBlacklist, nextId,
                       mediaStore, reads>>

\* handleLike from `await fetch(...)` on, for the request in slot s.
SettleLike(s) ==
    LET c == inflight[s] IN
    /\ c # Idle
    /\ c.kind = "fetch"
    /\ c.stage = "answered"
    /\ likedState' = afterResponse(likedState, c.originalState, c.ok)
    /\ inflight' = [inflight EXCEPT ![s] = Idle]
    /\ last' = [op |-> "settle", ok |-> c.ok, before |-> likedState,
                atClick |-> c.originalState, slot |-> s]
    /\ UNCHANGED <<views, session, users, tokenBlacklist, blogs, nextId, mediaStore,
                   toggles, reads>>

ClientNext ==
    \/ HandleLike
    \/ \E s \in Slots, net \in {"requestLost", "delivered", "responseLost"} :
            ServeLike(s, net)
    \/ \E s \in Slots : SettleLike(s)
    \/ BlacklistToken("tokU2")

ClientSpec == ClientInit /\ [][ClientNext]_vars

(***************************************************************************)
(* ErrorSpec: the 500 responses.  An exception reaches the catch block of  *)
(* the auth middleware, the catch block of a route handler, or the         *)
(* application's error handler (server/index.js, and the serverless entry  *)
(* point's own handler), under a value of process.env.NODE_ENV.            *)
(***************************************************************************)
Environments == {"production", "development", Undefined}

ErrorNames ==
    {"Error", "ValidationError", "MongoError", "MongoServerError",
     "JsonWebTokenError", "TokenExpiredError", "UnauthorizedError",
     "NotFoundError", "CastError"}

StackTrace == "Error\n    at Query.exec (mongoose/lib/query.js)"

\* Thrown values: statusCode 0 and code Undefined stand for an absent
\* property, code "11000" for the number 11000.
Errors ==
    {e \in [name : ErrorNames,
            message : {"", "connect ECONNREFUSED 10.0.0.5:27017"},
            statusCode : {0, 503},
            code : {Undefined, "11000", "ECONNREFUSED"},
            stack : {StackTrace}] :
        /\ e.code # Undefined => e.name \in {"MongoError", "MongoServerError"}
        /\ e.statusCode # 0 => e.name = "Error"}

\* A JSON body: a property that is undefined is not serialised.
NoBody ==
    [error |-> Undefined, message |-> Undefined, details |-> Undefined,
     stack |-> Undefined, code |-> Undefined, text |-> Undefined]

\* auth: the inner catch answers the two jwt errors 401 and rethrows the
\* others to the outer catch.
authCatch(env, error) ==
    IF error.name = "JsonWebTokenError"
    THEN [status |-> 401, body |-> [NoBody EXCEPT !.error = "Invalid token."]]
    ELSE IF error.name = "TokenExpiredError"
    THEN [status |-> 401, body |-> [NoBody EXCEPT !.error = "Token expired."]]
    ELSE [status |-> 500,
          body |-> [NoBody EXCEPT
                        !.error = "Server error during authentication.",
                        !.details = IF env = "production" THEN error.message
                                    ELSE Undefined]]

Routes ==
    {"GET /blogs", "GET /blogs/my-posts", "GET /blogs/:id", "POST /blogs",
     "PUT /blogs/:id", "DELETE /blogs/:id", "POST /blogs/:id/like",
     "POST /blogs/:id/comments", "GET /blogs/user/:userId", "POST /login"}

\* The outer catch block of each route handler.
routeCatch(route) ==
    [status |-> 500,
     body |->
        CASE route = "GET /blogs" ->
                [NoBody EXCEPT !.message =
                    "Failed to fetch blogs. Please try again later."]
          [] route = "POST /blogs" ->
                [NoBody EXCEPT !.error = "Server error during blog creation"]
          [] route = "PUT /blogs/:id" ->
                [NoBody EXCEPT !.error = "Server error during blog update"]
          [] route = "DELETE /blogs/:id" ->
                [NoBody EXCEPT !.error = "Server error during blog deletion"]
          [] route = "POST /blogs/:id/comments" ->
                [NoBody EXCEPT !.error = "Server error during comment creation"]
          [] route = "POST /login" ->
                [NoBody EXCEPT !.text = "Server error"]
          [] OTHER ->
                [NoBody EXCEPT !.error = "Server error"]]

Delegated == [status |-> 0, body |-> NoBody]

\* server/index.js: app.use((err, req, res, next) => ...).
globalErrorHandler(env, err, headersSent) ==
    LET isMongo == err.name \in {"MongoError", "MongoServerError"}
        statusCode ==
            CASE err.name = "ValidationError" -> 400
              [] isMongo /\ err.code = "11000" -> 409
              [] isMongo /\ err.code = "ECONNREFUSED" -> 503
              [] err.name \in {"JsonWebTokenError", "TokenExpiredError",
                               "UnauthorizedError"} -> 401
              [] err.name = "NotFoundError" -> 404
              [] OTHER -> IF err.statusCode # 0 THEN err.statusCode ELSE 500
        message ==
            CASE err.name = "ValidationError" -> "Validation Error"
              [] isMongo /\ err.code = "11000" -> "Duplicate key error"
              [] isMongo /\ err.code = "ECONNREFUSED" -> "Database connection error"
              [] isMongo -> "Database error"
              [] err.name = "JsonWebTokenError" -> "Invalid token"
              [] err.name = "TokenExpiredError" -> "Token expired"
              [] err.name = "UnauthorizedError" -> "Unauthorized"
              [] err.name = "NotFoundError" -> "Resource not found"
              [] OTHER -> IF err.message # "" THEN err.message
                          ELSE "Internal Server Error"
        details ==
            CASE err.name = "ValidationError" -> "fields"
              [] isMongo /\ err.code = "11000" -> "key"
              [] OTHER -> Undefined
    IN  IF headersSent THEN Delegated
        ELSE [status |-> statusCode,
              body |-> [NoBody EXCEPT
                            !.message = message,
                            !.code = err.code,
                            !.details = details,
                            !.stack = IF env = "development" THEN err.stack
                                      ELSE Undefined]]

\* The serverless entry point's app.use((err, req, res, next) => ...).
serverlessErrorHandler(env, err, headersSent) ==
    LET response ==
            [NoBody EXCEPT
                !.message = IF env = "production" \/ err.message = ""
                            THEN "Internal Server Error" ELSE err.message,
                !.stack = IF env # "production" THEN err.stack ELSE Undefined,
                !.error = IF env # "production" THEN err.message ELSE Undefined]
    IN  IF headersSent THEN Delegated
        ELSE IF err.name = "ValidationError"
        THEN [status |-> 400,
              body |-> [response EXCEPT !.message = "Validation Error",
                                        !.details = "fields"]]
        ELSE IF err.name = "CastError"
        THEN [status |-> 400,
              body |-> [response EXCEPT !.message = "Invalid ID format"]]
        ELSE [status |-> IF err.statusCode # 0 THEN err.statusCode ELSE 500,
              body |-> response]

ErrorStep(where, env, err, resp) ==
    /\ last' = [op |-> "error", where |-> where, env |-> env, err |-> err,
                resp |-> resp]
    /\ UNCHANGED <<views, likedState, session, users, tokenBlacklist, blogs, nextId,
                   mediaStore, inflight, toggles, reads>>

AuthThrows(env, err) == ErrorStep("auth", env, err, authCatch(env, err))

RouteThrows(route, env, err) == ErrorStep(route, env, err, routeCatch(route))

Unhandled(env, err, headersSent) ==
    ErrorStep("index.js", env, err, globalErrorHandler(env, err, headersSent))

UnhandledServerless(env, err, headersSent) ==
    ErrorStep("serverless", env, err,
              serverlessErrorHandler(env, err, headersSent))

ErrorNext ==
    \/ \E env \in Environments, err \in Errors : AuthThrows(env, err)
    \/ \E r \in Routes, env \in Environments, err \in Errors :
            RouteThrows(r, env, err)
    \/ \E env \in Environments, err \in Errors, sent \in BOOLEAN :
            Unhandled(env, err, sent)
    \/ \E env \in Environments, err \in Errors, sent \in BOOLEAN :
            UnhandledServerless(env, err, sent)

ErrorSpec == Init /\ [][ErrorNext]_vars

(***************************************************************************)
(* GridSpec: BlogGrid over a fixed store.  The parent renders the grid     *)
(* with new props, the user presses "Try again", and the list requests     *)
(* settle in any order.  GridLiveSpec is the same with every request       *)
(* answered 200 and eventually settled.                                    *)
(***************************************************************************)
MaxRequests == 3
GridLimit == 1

\* Every variable but the client's pages.
rest == <<likedState, session, users, tokenBlacklist, blogs, nextId,
          mediaStore, inflight, toggles, reads>>

ViewDocs ==
    <<NewBlog("u1", [PlainBody EXCEPT !.has = @ \cup {"status"},
                                      !.status = "published"], 1),
      NewBlog("u2", [PlainBody EXCEPT !.has = @ \cup {"status"},
                                      !.status = "published",
                                      !.category = "Design"], 2),
      NewBlog("u1", PlainBody, 1)>>

ViewInit ==
    /\ users = InitUsers
    /\ tokenBlacklist = {}
    /\ blogs = ViewDocs
    /\ nextId = Len(ViewDocs) + 1
    /\ mediaStore = MediaInputs
    /\ inflight = [s \in Slots |-> Idle]
    /\ toggles = [p \in PostIds |-> [u \in Likers |-> 0]]
    /\ reads = [p \in PostIds |-> 0]
    /\ last = [op |-> "init"]
    /\ likedState = [isLiked |-> FALSE, likesCount |-> 0]
    /\ session \in {NoSession,
                    [isAuthenticated |-> TRUE, token |-> "tokU1", user |-> "u1"]}
    /\ ViewsInit

\* The params object a page hands to api.getBlogs: an absent key is Absent,
\* Undefined or NoSearch.
NoParams ==
    [page |-> Absent, limit |-> Absent, category |-> Undefined,
     search |-> NoSearch, sort |-> Undefined, myPosts |-> Undefined]

\* api.getBlogs(params): page and limit default to 1 and 10, getBlogsUrl
\* drops the keys that are undefined, null or ''; the request is built by
\* createOptions('GET'), with no token: a second argument is not read.
apiGetBlogs(params, token) ==
    [query |-> [page |-> IF params.page = Absent THEN Digits(1) ELSE params.page,
                limit |-> IF params.limit = Absent THEN Digits(10)
                          ELSE params.limit,
                category |-> IF params.category = "" THEN Undefined
                             ELSE params.category,
                search |-> IF params.search.text = <<>> THEN NoSearch
                           ELSE params.search,
                sort |-> IF params.sort = "" THEN Undefined ELSE params.sort],
     myPosts |-> IF params.myPosts = "" THEN Undefined ELSE params.myPosts,
     hdr |-> NoHeader]

\* router.get('/') answering a request of the client: data.blogs and
\* data.total of the 200 response.
getBlogsRoute(bs, us, req) ==
    LET a == optionalAuth(req.hdr, us)
        l == limitNum(req.query)
        k == Mult(Minus(pageNum(req.query), Num(1)), l)
        found == listBlogs(bs, a.user, req.myPosts, req.query)
    IN  [blogs |-> PageOf(Sorted(bs, req.query.sort, found), k, l),
         total |-> Cardinality(found)]

\* The request of ticket t leaves for the network, and is taken off it.
Issue(pend, view, for, req) ==
    [issued |-> pend.issued + 1,
     open |-> [t \in DOMAIN pend.open \cup {pend.issued + 1} |->
                IF t \in DOMAIN pend.open THEN pend.open[t]
                ELSE [view |-> view, for |-> for, req |-> req]]]

Close(pend, t) ==
    [pend EXCEPT !.open = [x \in DOMAIN pend.open \ {t} |-> pend.open[x]]]

OpenOf(view) == {t \in DOMAIN pending.open : pending.open[t].view = view}

TokenOf(s) == IF s.isAuthenticated THEN s.token ELSE Undefined

\* fetchBlogs without the loadingRef guard.
fetchBlogsUnguarded(g, pend, s) ==
    [grid |-> [g EXCEPT !.loadingRef = TRUE, !.isLoading = TRUE,
                        !.error = Undefined],
     pending |-> Issue(pend, "grid", g.props,
                    apiGetBlogs([NoParams EXCEPT
                                    !.page = Digits(g.props.page),
                                    !.limit = Digits(GridLimit),
                                    !.sort = g.props.sort,
                                    !.category = g.props.category],
                                TokenOf(s)))]

\* fetchBlogs of the render with props g.props, to its await.
fetchBlogs(g, pend, s) ==
    IF g.loadingRef THEN [grid |-> g, pending |-> pend]
    ELSE [grid |-> [g EXCEPT !.loadingRef = TRUE, !.isLoading = TRUE,
                             !.error = Undefined],
          pending |-> Issue(pend, "grid", g.props,
                        apiGetBlogs([NoParams EXCEPT
                                        !.page = Digits(g.props.page),
                                        !.limit = Digits(GridLimit),
                                        !.sort = g.props.sort,
                                        !.category = g.props.category],
                                    TokenOf(s)))]

FetchCalled(via, g, f) ==
    [op |-> "fetchBlogs", via |-> via, flag |-> g.loadingRef,
     listBefore |-> g.blogs, listAfter |-> f.grid.blogs,
     openBefore |-> DOMAIN pending.open, openAfter |-> DOMAIN f.pending.open]

\* The grid is rendered with props p, for the first time or with props that
\* changed, and its effects run in order.  The two effects on
\* [searchQuery, category, sort] call setBlogs([]) and then setPage(1);
\* setPage is defined nowhere in the module, so the call throws a
\* ReferenceError out of the effect.  What becomes of the component then is
\* the framework's doing: it is torn down (survives = FALSE: no later effect
\* runs), or it goes on with the effect on [fetchBlogs], which calls the
\* fetchBlogs of this render.
GridRender(p, survives) ==
    LET first == ~grid.mounted
        reset == first \/ p.category # grid.props.category
                       \/ p.sort # grid.props.sort
        g1 == [grid EXCEPT !.mounted = TRUE, !.props = p]
        g2 == IF reset THEN [g1 EXCEPT !.blogs = <<>>] ELSE g1
        f == fetchBlogs(g2, pending, session)
    IN  /\ grid.alive
        /\ first \/ p # grid.props
        /\ pending.issued < MaxRequests
        /\ ~reset => survives
        /\ grid' = IF survives THEN f.grid ELSE [g1 EXCEPT !.alive = FALSE]
        /\ pending' = IF survives THEN f.pending ELSE pending
        /\ last' = IF survives THEN FetchCalled("effect", g2, f)
                   ELSE [op |-> "tornDown"]
        /\ UNCHANGED <<rest, explore, myPostsPage, localStorage, authState>>

\* "Try again" of the error state: onClick={fetchBlogs}, disabled={isLoading}.
GridRetry ==
    LET f == fetchBlogs(grid, pending, session) IN
    /\ grid.mounted
    /\ grid.alive
    /\ grid.error # Undefined
    /\ ~grid.isLoading
    /\ pending.issued < MaxRequests
    /\ grid' = f.grid
    /\ pending' = f.pending
    /\ last' = FetchCalled("retry", grid, f)
    /\ UNCHANGED <<rest, explore, myPostsPage, localStorage, authState>>

\* fetchBlogs from its await on, for the request of ticket t: the response
\* is a 200, or the request failed.  A component that was torn down keeps
\* its ref object and ignores the state setters.
GridSettle(t, ok) ==
    LET r == pending.open[t]
        data == getBlogsRoute(blogs, users, r.req)
        g == IF ok
             THEN [grid EXCEPT
                      !.blogs = IF r.for.page = 1 THEN data.blogs
                                ELSE @ \o data.blogs,
                      !.totalCount = data.total,
                      !.hasMore = Len(data.blogs) = GridLimit,
                      !.shownFor = r.for]
             ELSE [grid EXCEPT
                      !.error = "Failed to load blogs. Please try again later."]
    IN  /\ t \in OpenOf("grid")
        /\ grid' = IF grid.alive
                   THEN [g EXCEPT !.loadingRef = FALSE, !.isLoading = FALSE]
                   ELSE [grid EXCEPT !.loadingRef = FALSE]
        /\ pending' = Close(pending, t)
        /\ last' = [op |-> "gridSettle", ok |-> ok, ticket |-> t]
        /\ UNCHANGED <<rest, explore, myPostsPage, localStorage, authState>>

GridNext ==
    \/ \E p \in GridProps, survives \in BOOLEAN : GridRender(p, survives)
    \/ GridRetry
    \/ \E t \in 1..MaxRequests, ok \in BOOLEAN : GridSettle(t, ok)

GridSpec == ViewInit /\ [][GridNext]_vars

GridLiveNext ==
    \/ \E p \in GridProps, survives \in BOOLEAN : GridRender(p, survives)
    \/ \E t \in 1..MaxRequests : GridSettle(t, TRUE)

GridLiveSpec ==
    /\ ViewInit
    /\ [][GridLiveNext]_vars
    /\ WF_vars(\E t \in 1..MaxRequests : GridSettle(t, TRUE))

(***************************************************************************)
(* ExploreSpec: the Explore page over the same store.  The URL's search    *)
(* params change (handleSearch, handleCategorySelect, handlePageChange),   *)
(* the effect on [currentPage, searchTerm, category] calls fetchBlogs and  *)
(* fetchCategories, and the requests settle in any order.                  *)
(***************************************************************************)
ItemsPerPage == 9

\* The state fetchBlogs leaves when the response r for params `for` is a 200.
exploreApplyIfCurrent(e, for, data) ==
    IF for # e.params THEN e
    ELSE [e EXCEPT !.blogs = data.blogs, !.totalBlogs = data.total,
                   !.totalPages = MathCeil(data.total, ItemsPerPage),
                   !.shownFor = for]

\* setBlogs, setTotalBlogs, setTotalPages of fetchBlogs.
exploreApply(e, for, data) ==
    [e EXCEPT !.blogs = data.blogs, !.totalBlogs = data.total,
              !.totalPages = MathCeil(data.total, ItemsPerPage),
              !.shownFor = for]

\* The page is rendered with search params p (searchTerm stays ''), on its
\* mount or after setSearchParams, and the effect runs.
ExploreNavigate(p) ==
    LET list == apiGetBlogs([NoParams EXCEPT !.page = Digits(p.page),
                                             !.limit = Digits(ItemsPerPage),
                                             !.search = Search(<<>>),
                                             !.category = p.category,
                                             !.sort = "newest"], Undefined)
        cats == apiGetBlogs(NoParams, Undefined)
    IN  /\ ~explore.mounted \/ p # explore.params
        /\ pending.issued + 2 <= 2 * MaxRequests
        /\ explore' = [explore EXCEPT !.mounted = TRUE, !.params = p,
                                      !.loading = TRUE]
        /\ pending' = Issue(Issue(pending, "explore", p, list),
                            "categories", p, cats)
        /\ last' = [op |-> "exploreNavigate",
                    inFlight |-> Cardinality(OpenOf("explore")), params |-> p]
        /\ UNCHANGED <<rest, grid, myPostsPage, localStorage, authState>>

\* fetchBlogs from its await on, for the request of ticket t.
ExploreSettle(t, ok) ==
    LET r == pending.open[t]
        data == getBlogsRoute(blogs, users, r.req)
        e == IF ok THEN exploreApply(explore, r.for, data) ELSE explore
    IN  /\ t \in OpenOf("explore")
        /\ explore' = [e EXCEPT !.loading = FALSE]
        /\ pending' = Close(pending, t)
        /\ last' = [op |-> "exploreSettle", ok |-> ok, ticket |-> t,
                    for |-> r.for, data |-> data]
        /\ UNCHANGED <<rest, grid, myPostsPage, localStorage, authState>>

\* fetchCategories from its await on.
CategoriesSettle(t, ok) ==
    LET r == pending.open[t]
        data == getBlogsRoute(blogs, users, r.req)
    IN  /\ t \in OpenOf("categories")
        /\ explore' = IF ok
                      THEN [explore EXCEPT !.categories =
                                {blogs[x].category : x \in Range(data.blogs)}]
                      ELSE explore
        /\ pending' = Close(pending, t)
        /\ last' = [op |-> "categoriesSettle", ok |-> ok, ticket |-> t]
        /\ UNCHANGED <<rest, grid, myPostsPage, localStorage, authState>>

ExploreNext ==
    \/ \E p \in ExploreParams : ExploreNavigate(p)
    \/ \E t \in 1..(2 * MaxRequests), ok \in BOOLEAN : ExploreSettle(t, ok)
    \/ \E t \in 1..(2 * MaxRequests), ok \in BOOLEAN : CategoriesSettle(t, ok)

ExploreSpec == ViewInit /\ [][ExploreNext]_vars

(***************************************************************************)
(* PutSpec: router.put('/:id') with MaxInflight requests overlapping.  The *)
(* handler awaits the store at Blog.findById and at                        *)
(* Blog.findByIdAndUpdate; it is two steps, the first leaving the          *)
(* filteredUpdates it computed from the document it read in `inflight`.    *)
(***************************************************************************)
\* The handler to its await of findByIdAndUpdate.
UpdateRead(h, id, b, now) ==
    LET a == auth(h, users, tokenBlacklist)
        doc == BlogFindById(blogs, id)
        r == updateBlog(a, b, doc)
        go == r.status = 200
    IN  /\ go => Busy # Slots
        /\ inflight' = IF go
                       THEN [inflight EXCEPT ![FreeSlot] =
                                [kind |-> "put", post |-> id, read |-> doc,
                                 filteredUpdates |-> FilteredUpdates(b, doc, now)]]
                       ELSE inflight
        /\ mediaStore' = IF go THEN MediaAfterUpdate(mediaStore, b, doc)
                         ELSE mediaStore
        /\ last' = [op |-> "updateRead", caller |-> a.user.id, post |-> id,
                    pre |-> doc, body |-> b, resp |-> r, go |-> go]
        /\ UNCHANGED <<views, likedState, session, users, tokenBlacklist, blogs,
                       nextId, toggles, reads>>

\* Blog.findByIdAndUpdate(req.params.id, filteredUpdates) and the response.
UpdateWrite(s) ==
    LET c == inflight[s] IN
    /\ c # Idle
    /\ c.kind = "put"
    /\ blogs' = findByIdAndUpdate(blogs, c.post, c.filteredUpdates)
    /\ inflight' = [inflight EXCEPT ![s] = Idle]
    /\ last' = [op |-> "updateWrite", post |-> c.post,
                pre |-> BlogFindById(blogs, c.post), read |-> c.read,
                stale |-> c.read # BlogFindById(blogs, c.post),
                resp |-> Resp(200, "")]
    /\ UNCHANGED <<views, likedState, session, users, tokenBlacklist, nextId,
                   mediaStore, toggles, reads>>

PutNext ==
    \/ \E b \in StatusBodies : \E now \in NowFor(b) :
            CreateBlog(<<"Bearer ", "tokU1">>, b, now)
    \/ \E h \in BlogHeaders, id \in PostIds, b \in StatusBodies :
            \E now \in NowFor(b) : UpdateRead(h, id, b, now)
    \/ \E s \in Slots : UpdateWrite(s)

PutSpec == Init /\ [][PutNext]_vars

(***************************************************************************)
(* LoginSpec: router.post('/login') of routes/auth.js beside the           *)
(* middleware.  A token is the name of what it carries (TokenData), so     *)
(* jwt.sign yields the token whose payload is the one signed; JWT_SECRET   *)
(* is set, and signing and verifying use the same secret.                  *)
(***************************************************************************)
Emails == {"u1@example.com", "nobody@example.com", "notAnEmail"}
Passwords == {"secret", "wrong", Undefined}

\* check('email').isEmail(), check('password').exists()
ValidateLogin(cred) ==
    {m \in {"Please include a valid email", "Password is required"} :
        \/ m = "Please include a valid email" /\ cred.email = "notAnEmail"
        \/ m = "Password is required" /\ cred.password = Undefined}

\* User.findOne({ email }): u1 registered with u1@example.com.
UserFindOne(us, email) ==
    IF email = "u1@example.com" /\ "u1" \in DOMAIN us THEN us["u1"] ELSE NoUser

\* bcrypt.compare(password, user.password): "hash" is the hash of "secret".
BcryptCompare(password, hash) == password = "secret" /\ hash = "hash"

\* jwt.sign(payload, JWT_SECRET, { expiresIn: '5d' }): the unexpired token
\* that verifies and decodes to the payload.
JwtSign(payload) ==
    CHOOSE t \in Tokens :
        /\ TokenData(t).sig
        /\ ~TokenData(t).expired
        /\ TokenData(t).userId = payload.userId
        /\ TokenData(t).user = payload.user

\* const payload = { user: { id: user.id } }
LoginPayload(user) == [userId |-> Undefined, user |-> user.id]

NoToken == [status |-> 400, token |-> Undefined, user |-> Undefined]

\* router.post('/login', ...)
login(us, cred) ==
    IF ValidateLogin(cred) # {} THEN NoToken
    ELSE LET user == UserFindOne(us, cred.email) IN
         IF user = NoUser THEN NoToken
         ELSE IF ~BcryptCompare(cred.password, user.password) THEN NoToken
         ELSE [status |-> 200, token |-> JwtSign(LoginPayload(user)),
               user |-> user.id]

Login(cred) ==
    /\ last' = [op |-> "login", cred |-> cred, resp |-> login(users, cred)]
    /\ UNCHANGED <<views, likedState, session, users, tokenBlacklist, blogs,
                   nextId, mediaStore, inflight, toggles, reads>>

LoginNext ==
    \/ \E cred \in [email : Emails, password : Passwords] : Login(cred)
    \/ \E t \in Tokens : BlacklistToken(t)
    \/ \E h \in Headers : AuthRequest(h)

LoginSpec == Init /\ [][LoginNext]_vars

(***************************************************************************)
(* MyPostsSpec: the My Posts page of the logged-in user, while the author  *)
(* of post 1 edits its status on the server.                               *)
(***************************************************************************)
\* res.status(200).json({ success: true, data: { blogs, total, ... } }) as
\* the client parses it: an object with the keys success and data.
ListBody(d) == [array |-> FALSE, keys |-> {"success", "data"}, data |-> d]

\* An element of the page's posts: a post of the store, or another object.
Post(id) == [kind |-> "post", id |-> id]
Wrapped(body) == [kind |-> "object", id |-> 0, body |-> body]

\* The argument of setPosts: the array itself, its blogs array, or the
\* object wrapped in an array.
postsOf(body) ==
    IF body.array THEN [i \in 1..Len(body.items) |-> Post(body.items[i])]
    ELSE IF "blogs" \in body.keys
    THEN [i \in 1..Len(body.blogs) |-> Post(body.blogs[i])]
    ELSE <<Wrapped(body)>>

\* fetchMyPosts to its await: on the mount, or from "Try Again".
fetchMyPosts(m, pend, s) ==
    IF TokenOf(s) = Undefined
    THEN [page |-> [m EXCEPT !.mounted = TRUE, !.loading = FALSE, !.posts = <<>>,
                             !.error = "No authentication token found. Please log in again."],
          pending |-> pend]
    ELSE [page |-> [m EXCEPT !.mounted = TRUE, !.loading = TRUE],
          pending |-> Issue(pend, "myPosts", s.user,
                        apiGetBlogs([NoParams EXCEPT !.myPosts = "true"],
                                    TokenOf(s)))]

MyPostsFetch ==
    LET f == fetchMyPosts(myPostsPage, pending, session) IN
    /\ ~myPostsPage.mounted
         \/ (myPostsPage.error # Undefined /\ ~myPostsPage.loading)
    /\ pending.issued < MaxRequests
    /\ myPostsPage' = f.page
    /\ pending' = f.pending
    /\ last' = [op |-> "fetchMyPosts", sent |-> f.pending # pending]
    /\ UNCHANGED <<rest, grid, explore, localStorage, authState>>

\* fetchMyPosts from its await on.
MyPostsSettle(t, ok) ==
    LET r == pending.open[t]
        data == getBlogsRoute(blogs, users, r.req)
    IN  /\ t \in OpenOf("myPosts")
        /\ myPostsPage' =
              IF ok
              THEN [myPostsPage EXCEPT !.posts = postsOf(ListBody(data)),
                                       !.error = Undefined, !.loading = FALSE]
              ELSE [myPostsPage EXCEPT !.posts = <<>>, !.loading = FALSE,
                                       !.error = "Failed to fetch posts"]
        /\ pending' = Close(pending, t)
        /\ last' = [op |-> "myPostsSettle", ok |-> ok, req |-> r.req,
                    data |-> data]
        /\ UNCHANGED <<rest, grid, explore, localStorage, authState>>

MyPostsNext ==
    \/ MyPostsFetch
    \/ \E t \in 1..MaxRequests, ok \in BOOLEAN : MyPostsSettle(t, ok)
    \/ \E b \in StatusBodies : \E now \in NowFor(b) :
            UpdateBlog(<<"Bearer ", "tokU1">>, 1, b, now)

MyPostsSpec == ViewInit /\ [][MyPostsNext]_vars

(***************************************************************************)
(* SessionSpec: the AuthProvider.  loadUser (the effect on [token]), login *)
(* and logout each run to an await, and go on when the request they wait   *)
(* for settles; operations overlap freely.  GET /users/me stands behind    *)
(* the auth middleware, POST /login is the login route.                    *)
(***************************************************************************)
StoredTokens == {NoItem, "tokU1", "tokExp"}

SessionInit ==
    /\ users = InitUsers
    /\ tokenBlacklist = {}
    /\ blogs = <<>>
    /\ nextId = 1
    /\ mediaStore = MediaInputs
    /\ inflight = [s \in Slots |-> Idle]
    /\ toggles = [p \in PostIds |-> [u \in Likers |-> 0]]
    /\ reads = [p \in PostIds |-> 0]
    /\ last = [op |-> "init"]
    /\ likedState = [isLiked |-> FALSE, likesCount |-> 0]
    /\ session = NoSession
    /\ grid = GridUnmounted
    /\ explore = ExploreUnmounted
    /\ myPostsPage = MyPostsUnmounted
    /\ pending = NoRequests
    /\ localStorage \in [token : StoredTokens]
    /\ authState = ProviderState(localStorage.token)

\* const isAuthenticated = !!user && !!token
isAuthenticated(a) == a.user # Undefined /\ a.token # NoItem

\* How a request of the provider settles: a response the handler accepts, an
\* error whose message holds '401' or '403', or any other error.
Outcomes == {"ok", "error401", "error"}

\* api.getCurrentUser(token) can succeed only if auth lets the token in.
ProfileOf(token) == auth(<<"Bearer ", token>>, users, tokenBlacklist)

\* fetchUserProfile's catch: the item is removed when the message holds
\* '401' or '403'.
fetchUserProfileFailed(store, outcome) ==
    IF outcome = "error401" THEN [store EXCEPT !.token = NoItem] ELSE store

\* The effect on [token]: loadUser to its await.
LoadUser ==
    /\ authState.effectFor # authState.token
    /\ authState.token # NoItem => pending.issued < MaxRequests
    /\ authState' = [authState EXCEPT
                        !.effectFor = authState.token,
                        !.loading = IF authState.token = NoItem THEN FALSE ELSE @]
    /\ pending' = IF authState.token = NoItem THEN pending
                  ELSE Issue(pending, "loadUser", authState.token, Undefined)
    /\ last' = [op |-> "loadUser", token |-> authState.token]
    /\ UNCHANGED <<rest, grid, explore, myPostsPage, localStorage>>

\* loadUser from its await on.
LoadUserSettle(t, outcome) ==
    LET r == pending.open[t]
        a == ProfileOf(r.for)
    IN  /\ t \in OpenOf("loadUser")
        /\ outcome = "ok" => a.next
        /\ authState' = IF outcome = "ok"
                        THEN [authState EXCEPT !.user = a.user.id,
                                               !.loading = FALSE]
                        ELSE [authState EXCEPT !.token = NoItem,
                                               !.loading = FALSE]
        /\ localStorage' = IF outcome = "ok" THEN localStorage
                           ELSE [localStorage EXCEPT !.token = NoItem]
        /\ pending' = Close(pending, t)
        /\ last' = [op |-> "loadUserSettle", outcome |-> outcome]
        /\ UNCHANGED <<rest, grid, explore, myPostsPage>>

\* login(email, password) to its await of api.login.
LoginStart(cred) ==
    /\ pending.issued < MaxRequests
    /\ authState' = [authState EXCEPT !.loading = TRUE, !.error = Undefined]
    /\ pending' = Issue(pending, "login", cred, localStorage.token)
    /\ last' = [op |-> "loginStart", cred |-> cred]
    /\ UNCHANGED <<rest, grid, explore, myPostsPage, localStorage>>

\* login from api.login's settling to its next await or its end.  The
\* response is the login route's, which holds a token and no user; withUser
\* is a server that sends the user along.
LoginResponse(t, outcome, withUser) ==
    LET r == pending.open[t]
        resp == login(users, r.for)
        got == outcome = "ok" /\ resp.status = 200
    IN  /\ t \in OpenOf("login")
        /\ withUser => got
        /\ got /\ ~withUser => pending.issued < MaxRequests
        /\ localStorage' = IF got THEN [localStorage EXCEPT !.token = resp.token]
                           ELSE localStorage
        /\ authState' =
              IF got /\ withUser
              THEN [authState EXCEPT !.user = resp.user, !.token = resp.token,
                                     !.error = Undefined, !.loading = FALSE]
              ELSE IF got THEN authState
              ELSE [authState EXCEPT !.error = "Login failed. Please try again.",
                                     !.loading = FALSE]
        /\ pending' = IF got /\ ~withUser
                      THEN Issue(Close(pending, t), "loginProfile", resp.token,
                                 r.req)
                      ELSE Close(pending, t)
        /\ last' = [op |-> IF got /\ withUser THEN "loginDone"
                           ELSE IF got THEN "loginToken" ELSE "loginThrew",
                    received |-> IF got THEN resp.token ELSE NoItem,
                    before |-> r.req]
        /\ UNCHANGED <<rest, grid, explore, myPostsPage>>

\* login from fetchUserProfile's settling on.
LoginProfileSettle(t, outcome) ==
    LET r == pending.open[t]
        a == ProfileOf(r.for)
    IN  /\ t \in OpenOf("loginProfile")
        /\ outcome = "ok" => a.next
        /\ localStorage' = IF outcome = "ok" THEN localStorage
                           ELSE fetchUserProfileFailed(localStorage, outcome)
        /\ authState' =
              IF outcome = "ok"
              THEN [authState EXCEPT !.user = a.user.id, !.token = r.for,
                                     !.error = Undefined, !.loading = FALSE]
              ELSE [authState EXCEPT !.error = "Login failed. Please try again.",
                                     !.loading = FALSE]
        /\ pending' = Close(pending, t)
        /\ last' = [op |-> IF outcome = "ok" THEN "loginDone" ELSE "loginThrew",
                    received |-> r.for, before |-> r.req]
        /\ UNCHANGED <<rest, grid, explore, myPostsPage>>

\* logout() to its await of api.logout(token).
LogoutStart ==
    /\ pending.issued < MaxRequests
    /\ pending' = Issue(pending, "logout", authState.token,
                        isAuthenticated(authState))
    /\ last' = [op |-> "logoutStart"]
    /\ UNCHANGED <<rest, grid, explore, myPostsPage, localStorage, authState>>

\* A logout that keeps the session when the server call failed.
logoutKeepOnFailure(a, store, outcome) ==
    IF outcome = "ok"
    THEN [authState |-> [a EXCEPT !.user = Undefined, !.token = NoItem,
                                  !.error = Undefined],
          localStorage |-> [store EXCEPT !.token = NoItem]]
    ELSE [authState |-> a, localStorage |-> store]

\* logout from its await on: the error of api.logout is swallowed by the
\* inner catch, and setUser(null), setToken(null), setError(null),
\* localStorage.removeItem('token') follow whatever the outcome.
logout(a, store, outcome) ==
    [authState |-> [a EXCEPT !.user = Undefined, !.token = NoItem,
                             !.error = Undefined],
     localStorage |-> [store EXCEPT !.token = NoItem]]

LogoutSettle(t, outcome) ==
    LET r == pending.open[t] IN
    /\ t \in OpenOf("logout")
    /\ authState' = logout(authState, localStorage, outcome).authState
    /\ localStorage' = logout(authState, localStorage, outcome).localStorage
    /\ pending' = Close(pending, t)
    /\ last' = [op |-> "logoutSettle", outcome |-> outcome, wasIn |-> r.req]
    /\ UNCHANGED <<rest, grid, explore, myPostsPage>>

SessionNext ==
    \/ LoadUser
    \/ \E t \in 1..MaxRequests, o \in Outcomes : LoadUserSettle(t, o)
    \/ \E cred \in [email : Emails, password : {"secret", "wrong"}] :
            LoginStart(cred)
    \/ \E t \in 1..MaxRequests, o \in Outcomes, withUser \in BOOLEAN :
            LoginResponse(t, o, withUser)
    \/ \E t \in 1..MaxRequests, o \in Outcomes : LoginProfileSettle(t, o)
    \/ LogoutStart
    \/ \E t \in 1..MaxRequests, o \in Outcomes : LogoutSettle(t, o)

SessionSpec == SessionInit /\ [][SessionNext]_vars

AuthNext ==
    \/ \E t \in Tokens : BlacklistToken(t)
    \/ \E h \in Headers : AuthRequest(h)
    \/ \E h \in Headers : AdminRequest(h)
    \/ \E h \in Headers : OptionalRequest(h)

AuthSpec == Init /\ [][AuthNext]_vars

(***************************************************************************)
(* Properties of the content routes (Spec).                                *)
(***************************************************************************)
\* The caller of the step just taken is someone other than the author of the
\* post it addressed: anonymous, or another user.
LastByNonAuthor == last.pre # NoDoc /\ last.caller # last.pre.author

LastPostUntouched == BlogFindById(blogs, last.post) = last.pre

\* C1: GET /blogs/:id on a post that is not published, by anyone but its
\* author, is answered 404 with the body of a request for an id matching no
\* post, and the post (its views counter included) is left as it was.
C1_DraftConcealed ==
    /\ (last.op = "get" /\ last.pre = NoDoc)
            => last.resp = [status |-> 404, error |-> "Blog not found", errors |-> {}]
    /\ (last.op = "get" /\ LastByNonAuthor /\ last.pre.status # "published")
            => /\ last.resp = [status |-> 404, error |-> "Blog not found", errors |-> {}]
               /\ LastPostUntouched

C1_Witness ==
    /\ last.op = "get"
    /\ LastByNonAuthor
    /\ last.pre.status = "draft"
    /\ last.caller = "u2"
    /\ last.resp.status = 404

\* A PUT body in which every field present is within its limits.
BodyAcceptable(b) ==
    /\ ("title" \in b.has) => (Len(b.title) \in 5..200)
    /\ ("status" \in b.has) => (b.status \in {"draft", "published"})

\* C2 as stated: PUT and DELETE by an authenticated user who is not the
\* author are answered 403 and leave the post and the media store unchanged.
C2_NonAuthorAlways403 ==
    (last.op \in {"update", "delete"} /\ LastByNonAuthor /\ last.caller # Undefined)
        => /\ last.resp.status = 403
           /\ LastPostUntouched
           /\ mediaStore = last.preMedia

\* C2 as amended: the same, except that a PUT whose body fails validation is
\* answered 400 (validation runs before the ownership check); in every case
\* the post and the media store are unchanged.
C2_NonAuthorRejected ==
    (last.op \in {"update", "delete"} /\ LastByNonAuthor /\ last.caller # Undefined)
        => /\ last.resp.status =
                IF last.op = "update" /\ ~BodyAcceptable(last.body) THEN 400 ELSE 403
           /\ LastPostUntouched
           /\ mediaStore = last.preMedia

C2_Witness ==
    /\ last.op = "update"
    /\ LastByNonAuthor
    /\ last.caller # Undefined
    /\ {"title", "status", "media"} \subseteq last.body.has
    /\ last.pre.media = "m1"
    /\ last.resp.status = 403

\* C3: a listing never holds a post that is not published unless the caller
\* is its author: GET /blogs scopes to the caller's own posts only when
\* myPosts='true' and the caller is authenticated, and to published posts in
\* every other case; GET /blogs/user/:userId holds published posts only.
C3_ListingsHideDrafts ==
    /\ last.op = "list" =>
          IF last.myPosts = "true" /\ last.caller # Undefined
          THEN \A p \in last.result : blogs[p].author = last.caller
          ELSE \A p \in last.result : blogs[p].status = "published"
    /\ last.op = "userBlogs" =>
          \A p \in last.result : blogs[p].status = "published"
    /\ last.op = "myPosts" =>
          \A p \in last.result : blogs[p].author = last.caller

C3_Witness ==
    /\ last.op = "list"
    /\ last.myPosts = "true"
    /\ last.caller = Undefined
    /\ \E p \in DOMAIN blogs : blogs[p].status = "draft"
    /\ last.result = {}

\* C6: publishedAt follows status. A created post has a publishedAt iff it is
\* created published; an update from draft to published sets it, one from
\* published to draft clears it, one that leaves the status leaves it.
C6_PublishedAtFollowsStatus ==
    /\ (last.op = "create" /\ last.resp.status = 201) =>
          (blogs[last.post].publishedAt # Null
              <=> ("status" \in last.body.has /\ last.body.status = "published"))
    /\ (last.op = "update" /\ last.resp.status = 200) =>
          LET was == last.pre.status
              is == blogs[last.post].status
              at == blogs[last.post].publishedAt
          IN  /\ (was = "draft" /\ is = "published") => at # Null
              /\ (was = "published" /\ is = "draft") => at = Null
              /\ was = is => at = last.pre.publishedAt

C6_Witness ==
    /\ last.op = "update"
    /\ last.resp.status = 200
    /\ last.pre.status = "published"
    /\ last.pre.publishedAt # Null
    /\ blogs[last.post].status = "draft"
    /\ blogs[last.post].publishedAt = Null

\* C7: a post's views counter is the number of detail requests made on it
\* while published by someone other than its author (`reads`); neither the
\* author's requests nor requests answered 404 move it.
C7_ViewsCountQualifyingReads ==
    /\ \A p \in DOMAIN blogs : blogs[p].views = reads[p]
    /\ (last.op = "get" /\ last.pre # NoDoc
            /\ (last.caller = last.pre.author \/ last.resp.status = 404))
          => LastPostUntouched

C7_Witness ==
    /\ last.op = "get"
    /\ last.caller = "u2"
    /\ last.resp.status = 200
    /\ last.pre.views = 1
    /\ blogs[last.post].views = 2

(***************************************************************************)
(* Properties of the like route (LikeSpec).                                *)
(***************************************************************************)
LikedBy(likes) == {u \in UserIds : Includes(likes, u)}

\* C4: a like request on a published post flips the caller's membership in
\* the likes set and nobody else's, changes nothing else of the post, and
\* returns the resulting isLiked and likeCount (so a second toggle by the same
\* user undoes the first); on a missing or unpublished post it returns 404 and
\* changes nothing.
C4_ToggleFlipsCaller ==
    /\ (last.op = "likeWrite" /\ last.pre # NoDoc) =>
          LET after == blogs[last.post].likes IN
          /\ LikedBy(after) =
                IF last.caller \in LikedBy(last.pre.likes)
                THEN LikedBy(last.pre.likes) \ {last.caller}
                ELSE LikedBy(last.pre.likes) \cup {last.caller}
          /\ blogs[last.post] = [last.pre EXCEPT !.likes = after]
          /\ last.resp.status = 200
          /\ last.isLiked = (last.caller \in LikedBy(after))
          /\ last.likeCount = Cardinality(LikedBy(after))
    /\ (last.op = "likeRead" /\ last.caller # Undefined
            /\ (last.pre = NoDoc \/ last.pre.status # "published")) =>
          /\ last.resp.status = 404
          /\ ~last.go
          /\ LastPostUntouched

\* The second of two toggles by u2 on a post nobody else liked.
C4_Witness ==
    /\ last.op = "likeWrite"
    /\ last.caller = "u2"
    /\ last.pre # NoDoc
    /\ last.pre.likes = <<"u2">>
    /\ toggles[last.post]["u2"] = 0
    /\ ~last.isLiked
    /\ last.likeCount = 0

\* C5: however like requests interleave between their read and their write,
\* no toggle is lost and no id is stored twice: a user is in a post's likes
\* iff an odd number of that user's toggles reached the post.
C5_NoToggleLost ==
    \A p \in DOMAIN blogs :
        /\ \A u \in Likers : Includes(blogs[p].likes, u) <=> toggles[p][u] = 1
        /\ Len(blogs[p].likes) = Cardinality(LikedBy(blogs[p].likes))

\* A write by a handler whose loaded copy was already out of date.
C5_Witness ==
    /\ last.op = "likeWrite"
    /\ last.pre # NoDoc
    /\ last.stale
    /\ Len(blogs[last.post].likes) = 2

(***************************************************************************)
(* Properties of the middleware (AuthSpec).                                *)
(***************************************************************************)
\* The header presents credential t as a bearer token.
Presents(h, t) == h = <<"Bearer ", t>>

\* C8: once blacklistToken(t) has been called, t stays on the revocation set
\* and every request that presents t to `auth` is answered 401 without
\* reaching the handler, though t is within its expiry.
C8_RevokedStaysRejected ==
    /\ [](\A t \in Tokens :
            (last.op = "auth" /\ Presents(last.hdr, t) /\ <<t>> \in tokenBlacklist)
                => (last.status = 401 /\ ~last.ran /\ last.user = NoUser))
    /\ [][/\ tokenBlacklist \subseteq tokenBlacklist'
          /\ last'.op = "blacklist" => <<last'.token>> \in tokenBlacklist']_vars

C8_Witness ==
    /\ last.op = "auth"
    /\ Presents(last.hdr, "tokU1")
    /\ <<"tokU1">> \in tokenBlacklist
    /\ last.status = 401
    /\ ~last.ran

\* What the stated rules, read in order, make of a header: 401 without a
\* 'Bearer ' header, 401 for a revoked token, 401 for a bad signature or an
\* expired token, 404 when the token's user id matches no stored user,
\* otherwise 0: the handler runs.
StatedOutcome(h) ==
    IF h = NoHeader \/ h[1] # "Bearer " THEN 401
    ELSE IF <<h[2]>> \in tokenBlacklist THEN 401
    ELSE IF ~TokenData(h[2]).sig \/ TokenData(h[2]).expired THEN 401
    ELSE IF TokenData(h[2]).userId \notin DOMAIN users THEN 404
    ELSE 0

\* The same with the rule the code has and the statement lacks: a token that
\* verifies but carries no userId is answered 401, before any user lookup.
ActualOutcome(h) ==
    IF h = NoHeader \/ h[1] # "Bearer " THEN 401
    ELSE IF <<h[2]>> \in tokenBlacklist THEN 401
    ELSE IF ~TokenData(h[2]).sig \/ TokenData(h[2]).expired THEN 401
    ELSE IF TokenData(h[2]).userId = Undefined THEN 401
    ELSE IF TokenData(h[2]).userId \notin DOMAIN users THEN 404
    ELSE 0

\* On success the stored user, less its password, is attached; on failure
\* the handler does not run and no user is attached.
AttachesAsDecided(outcome) ==
    /\ last.status = outcome
    /\ last.ran <=> outcome = 0
    /\ last.ran =>
          /\ "password" \notin DOMAIN last.user
          /\ last.user = [id |-> TokenData(last.hdr[2]).userId,
                          role |-> users[TokenData(last.hdr[2]).userId].role]
    /\ ~last.ran => last.user = NoUser

C10_AdminAuthRefinesAuth ==
    last.op = "adminAuth" =>
        /\ ~last.authRan => (~last.ran /\ last.status = last.authStatus)
        /\ last.authRan =>
              /\ last.ran <=> last.authUser.role = "admin"
              /\ ~last.ran => last.status = 403

\* The credential a header carries once 'Bearer ' is taken off it, when it
\* is one credential.
Carried(h) == IF Len(ReplaceBearer(h)) = 1 THEN ReplaceBearer(h)[1] ELSE Undefined

\* C11: optionalAuth lets every request through to the handler, and attaches
\* a user only for a token that verifies, is not on the revocation set and
\* names a stored user; without a header, or with an invalid, expired or
\* revoked token, no identity is attached.
C11_OptionalAuthAttachesLiveTokensOnly ==
    last.op = "optionalAuth" =>
        /\ last.ran
        /\ last.status = 0
        /\ last.user # NoUser =>
              /\ Carried(last.hdr) \in Tokens
              /\ TokenData(Carried(last.hdr)).sig
              /\ ~TokenData(Carried(last.hdr)).expired
              /\ <<Carried(last.hdr)>> \notin tokenBlacklist
              /\ last.user.id = TokenData(Carried(last.hdr)).userId
              /\ last.user.id \in DOMAIN users

(***************************************************************************)
(* Properties of the listings (PageSpec).                                  *)
(***************************************************************************)
\* C12: a listing request (GET /blogs, GET /blogs/user/:userId) is answered
\* whatever page and limit it carries, and the values its query uses are a
\* page of at least 1 and a limit of 1 to 100, 1 and 10 when absent.
C12_PagingClamped ==
    (last.op \in {"list", "userBlogs"} /\ ~last.query.search.given) =>
        /\ last.resp.status = 200
        /\ last.pageNum.kind = "num" /\ last.pageNum.n >= 1
        /\ last.limitNum.kind = "num" /\ last.limitNum.n \in 1..100
        /\ last.query.page = Absent => last.pageNum = Num(1)
        /\ last.query.limit = Absent => last.limitNum = Num(10)

\* The text holds s as a substring, letter case aside.
Contains(text, s) ==
    \E k \in 0..(Len(text) - Len(s)) :
        \A j \in 1..Len(s) : Lower(s[j]) = Lower(text[k + j])

\* The post holds s in its title, excerpt, content or one of its tags.
PostContains(doc, s) ==
    \/ Contains(doc.title, s)
    \/ Contains(doc.excerpt, s)
    \/ Contains(doc.content, s)
    \/ \E i \in 1..Len(doc.tags) : Contains(doc.tags[i], s)

\* The posts in the scope of the listing just served that hold s.
Matching(s) ==
    {p \in DOMAIN blogs :
        /\ IF last.myPosts = "true" /\ last.caller # Undefined
           THEN blogs[p].author = last.caller
           ELSE blogs[p].status = "published"
        /\ PostContains(blogs[p], s)}

\* C13: GET /blogs with search=s, page=p, limit=l returns the posts at
\* positions (p-1)*l .. p*l-1 of the sorted list of the in-scope posts that
\* hold s (letter case aside) in title, excerpt, content or a tag: at most l
\* of them, with total the number of all such posts and totalPages
\* ceil(total/l); a page past the last is empty, with the same totals.
C13_SearchPage ==
    (/\ last.op = "list"
     /\ last.query.search.given
     /\ last.pageNum.kind = "num"
     /\ last.limitNum.kind = "num") =>
        LET all == Sorted(blogs, last.query.sort, Matching(last.query.search.text))
            l == last.limitNum.n
            from == (last.pageNum.n - 1) * l
            to == IF from + l < Len(all) THEN from + l ELSE Len(all)
        IN  /\ last.resp.status = 200
            /\ last.items = SubSeq(all, from + 1, to)
            /\ Len(last.items) <= l
            /\ last.total = Len(all)
            /\ last.totalPages = Num((Len(all) + l - 1) \div l)

\* C14: in a GET /blogs response every post's isLiked is true iff the
\* caller is authenticated and in that post's likes set; a user who has
\* liked a published post sees isLiked = true for it in the next listing.
C14_ListingIsLiked ==
    (last.op = "list" /\ last.resp.status = 200) =>
        \A p \in last.result :
            last.isLiked[p] <=> (/\ last.caller # Undefined
                                 /\ last.caller \in LikedBy(blogs[p].likes))

\* C15: every 200 response of GET /blogs/:id carries isLiked, true iff the
\* caller is authenticated and in the post's likes set and false otherwise
\* (false, not absent, for an anonymous caller), and for a caller who is not
\* the author its views is one more than the value stored before the call.
C15_DetailIsLiked ==
    (last.op = "get" /\ last.resp.status = 200) =>
        /\ last.isLiked =
              IF last.caller # Undefined /\ last.caller \in LikedBy(last.pre.likes)
              THEN "true" ELSE "false"
        /\ last.caller # last.pre.author => last.views = last.pre.views + 1

(***************************************************************************)
(* Properties of the comment route (CommentSpec).                          *)
(***************************************************************************)
\* The content of the comment request just served is 1 to 1000 characters.
CommentAcceptable ==
    "content" \in last.body.has /\ Len(last.body.content) \in 1..1000

\* The post the comment request just served addressed exists and is published.
CommentablePost == last.pre # NoDoc /\ last.pre.status = "published"

\* C16: a comment of 1 to 1000 characters by an authenticated user on a
\* published post is appended, as sent and under the caller's id, at the end
\* of the post's comments, nothing else of the post changes, and it is what
\* the 201 response returns; on a missing or unpublished post the answer is
\* 404, on content outside 1..1000 it is 400 (when both apply, one of the
\* two), and the post is unchanged.
C16_CommentAppended ==
    (last.op = "comment" /\ last.caller # Undefined) =>
        /\ (CommentAcceptable /\ CommentablePost) =>
              /\ last.resp.status = 201
              /\ blogs[last.post] =
                    [last.pre EXCEPT !.comments =
                        Append(@, [user |-> last.caller,
                                   content |-> last.body.content])]
              /\ last.comment = [user |-> last.caller, content |-> last.body.content]
        /\ (CommentAcceptable /\ ~CommentablePost) => last.resp.status = 404
        /\ (~CommentAcceptable /\ CommentablePost) => last.resp.status = 400
        /\ (~CommentAcceptable /\ ~CommentablePost) => last.resp.status \in {400, 404}
        /\ ~(CommentAcceptable /\ CommentablePost) => LastPostUntouched

\* A second comment, of 1000 characters, by someone other than the author.
C16_Witness ==
    /\ last.op = "comment"
    /\ last.resp.status = 201
    /\ last.caller = "u2"
    /\ last.pre.author = "u1"
    /\ Len(last.pre.comments) = 1
    /\ Len(last.body.content) = 1000
    /\ Len(blogs[last.post].comments) = 2

(***************************************************************************)
(* Properties of create and update (EditSpec).                             *)
(***************************************************************************)
\* What the create chain says of the fields the body just served holds
\* (the fields it does not hold carry values the create chain accepts).
CreateErrors == ValidateCreate([last.body EXCEPT !.has = Fields])

\* C17: PUT /blogs/:id validates each field present as POST /blogs does:
\* a value create rejects is answered 400 with the field-level errors and
\* the post is unchanged; absent fields cause no rejection.
C17_UpdateValidatesAsCreate ==
    (last.op = "update" /\ last.caller # Undefined) =>
        /\ CreateErrors # {} =>
              /\ last.resp.status = 400
              /\ last.resp.errors = CreateErrors
              /\ LastPostUntouched
        /\ CreateErrors = {} => last.resp.status # 400

\* The number of words of a text: the maximal runs of characters that are
\* not whitespace.
Words(text) ==
    Cardinality({i \in 1..Len(text) :
                    /\ text[i] # " "
                    /\ (i = 1 \/ text[i - 1] = " ")})

\* C18: after POST /blogs and after every successful PUT whose body holds
\* content, readTime is ceil(w/200), w the number of whitespace-separated
\* words of the stored content; a PUT without content leaves readTime; so
\* readTime = ceil(wordCount(content)/200) in every reachable state.
C18_ReadTimeFromWords ==
    /\ (last.op = "update" /\ last.resp.status = 200 /\ "content" \notin last.body.has)
            => blogs[last.post].readTime = last.pre.readTime
    /\ \A p \in DOMAIN blogs :
            blogs[p].readTime = (Words(blogs[p].content) + 199) \div 200

(***************************************************************************)
(* Properties of the like button (ClientSpec).                             *)
(***************************************************************************)
\* C19: a click by an authenticated user flips the card's state (isLiked
\* negated, likesCount one up or one down and never below 0) and sends the
\* request in the same step, without waiting for a response; when the request
\* fails the state is put back to what it was at the click, when it succeeds
\* the state is kept; a click by a visitor who is not logged in sends nothing
\* and changes nothing.
C19_OptimisticThenRollback ==
    /\ (last.op = "click" /\ session.isAuthenticated) =>
          /\ last.sent
          /\ inflight[last.slot].kind = "fetch"
          /\ inflight[last.slot].stage = "sent"
          /\ likedState.isLiked = ~last.atClick.isLiked
          /\ likedState.likesCount =
                IF likedState.isLiked THEN last.atClick.likesCount + 1
                ELSE IF last.atClick.likesCount = 0 THEN 0
                ELSE last.atClick.likesCount - 1
          /\ likedState.likesCount >= 0
    /\ (last.op = "click" /\ ~session.isAuthenticated) =>
          /\ ~last.sent
          /\ likedState = last.atClick
          /\ Busy = {}
    /\ (last.op = "settle" /\ ~last.ok) => likedState = last.atClick
    /\ (last.op = "settle" /\ last.ok) => likedState = last.before

\* A request answered with a status that is not 2xx, settled after a second
\* click: the card goes back to the state at the first click.
C19_Witness ==
    /\ last.op = "settle"
    /\ ~last.ok
    /\ last.before # last.atClick
    /\ likedState = last.atClick
    /\ Busy # {}
    /\ tokenBlacklist # {}

\* C20: once every like request has settled, the card's isLiked is the
\* user's membership in the post's likes set on the server, whatever the
\* clicks, their overlap and the outcomes of the requests were.
C20_ConvergesToServer ==
    (session.isAuthenticated /\ Busy = {}) =>
        (likedState.isLiked <=> session.user \in LikedBy(blogs[1].likes))


(***************************************************************************)
(* Properties of the error responses (ErrorSpec).                          *)
(***************************************************************************)
Leaks(body, err) ==
    \/ err.message # "" /\ \E f \in DOMAIN body : body[f] = err.message
    \/ \E f \in DOMAIN body : body[f] = err.stack

\* C21: in production no 500 response, from the auth middleware, from a
\* route handler's catch block or from the top-level error handler, carries
\* the exception's message or stack.
C21_ProductionHidesDetail ==
    (last.op = "error" /\ last.env = "production" /\ last.resp.status = 500)
        => ~Leaks(last.resp.body, last.err)


(***************************************************************************)
(* Properties of BlogGrid (GridSpec, GridLiveSpec).                        *)
(***************************************************************************)
\* C22: BlogGrid has at most one list request in flight; a call of
\* fetchBlogs made while loadingRef is set issues no request and leaves the
\* list as it is; loadingRef is cleared when the request settles, with a
\* response or with a failure, so it is set only while a request is out.
C22_OneRequestInFlight ==
    /\ Cardinality(OpenOf("grid")) <= 1
    /\ grid.loadingRef <=> OpenOf("grid") # {}
    /\ (last.op = "fetchBlogs" /\ last.flag) =>
            /\ last.openAfter = last.openBefore
            /\ last.listAfter = last.listBefore
    /\ last.op = "gridSettle" => ~grid.loadingRef

C22_Witness ==
    /\ last.op = "fetchBlogs"
    /\ last.flag
    /\ Cardinality(OpenOf("grid")) = 1
    /\ pending.issued = 2


\* C23: a successful PUT /blogs/:id leaves every field of the post that the
\* body does not name as it was; readTime changes only with content,
\* publishedAt only with status; author, likes, comments and views are
\* never written, whatever the body names.
C23_UpdateWritesNamedFieldsOnly ==
    (last.op = "update" /\ last.resp.status = 200) =>
        LET post == blogs[last.post] IN
        /\ \A f \in Fields \ last.body.has : post[f] = last.pre[f]
        /\ "content" \notin last.body.has => post.readTime = last.pre.readTime
        /\ "status" \notin last.body.has => post.publishedAt = last.pre.publishedAt
        /\ \A f \in ProtectedKeys : post[f] = last.pre[f]

C23_Witness ==
    /\ last.op = "update"
    /\ last.resp.status = 200
    /\ last.body.has = {"title"} \cup ProtectedKeys
    /\ blogs[last.post].title = last.body.title
    /\ blogs[last.post].author # last.body.author


(***************************************************************************)
(* Properties of the Explore page (ExploreSpec).                           *)
(***************************************************************************)
\* C24: on Explore a change of page, search or category issues a list
\* request whatever is in flight, and the list, total and page count shown
\* are those of the response that arrived last, whichever params it was for.
C24_LastResponseWins ==
    /\ last.op = "exploreNavigate" =>
            Cardinality(OpenOf("explore")) = last.inFlight + 1
    /\ (last.op = "exploreSettle" /\ last.ok) =>
            /\ explore.blogs = last.data.blogs
            /\ explore.totalBlogs = last.data.total
            /\ explore.totalPages = MathCeil(last.data.total, ItemsPerPage)
            /\ explore.shownFor = last.for

\* The response for earlier params arrives after the one for the later
\* params and stays on the page.
C24_Witness ==
    /\ last.op = "exploreSettle"
    /\ last.ok
    /\ last.ticket = 1
    /\ pending.issued = 4
    /\ OpenOf("explore") = {}
    /\ explore.shownFor # explore.params
    /\ explore.totalBlogs = 2
    /\ explore.params.category = "Design"


(***************************************************************************)
(* Properties of overlapping updates (PutSpec).                            *)
(***************************************************************************)
\* C25: in every state of the store, after any creates and updates, updates
\* by the author that overlap included, a post is published if and only if
\* its publishedAt is not null.
C25_PublishedIffStamped ==
    \A p \in DOMAIN blogs :
        blogs[p].status = "published" <=> blogs[p].publishedAt # Null


(***************************************************************************)
(* Properties of the login route (LoginSpec).                              *)
(***************************************************************************)
\* C26: the token of a successful login, presented unexpired and unrevoked
\* as 'Authorization: Bearer <token>', passes the auth middleware as the
\* user who logged in.
C26_LoginTokenAuthenticates ==
    (/\ last.op = "login"
     /\ last.resp.status = 200
     /\ ~isTokenBlacklisted(<<last.resp.token>>, tokenBlacklist)) =>
        LET a == auth(<<"Bearer ", last.resp.token>>, users, tokenBlacklist)
        IN  /\ a.next
            /\ a.user.id = last.resp.user


C28_MyPostsAreOwn ==
    (last.op = "myPostsSettle" /\ last.ok) =>
        /\ last.req.hdr = <<"Bearer ", session.token>>
        /\ myPostsPage.posts =
                [i \in 1..Len(last.data.blogs) |-> Post(last.data.blogs[i])]
        /\ \A i \in 1..Len(myPostsPage.posts) :
                /\ myPostsPage.posts[i].kind = "post"
                /\ blogs[myPostsPage.posts[i].id].author = session.user


(***************************************************************************)
(* Properties of the AuthProvider (SessionSpec).                           *)
(***************************************************************************)
\* No request of the provider is out and the effect on [token] has run.
Quiet == pending.open = <<>> /\ authState.effectFor = authState.token

\* C29: whenever no AuthContext operation is in progress the token in
\* localStorage equals the context's token; isAuthenticated holds only with
\* a user and a token; a login() that throws leaves no new token in
\* localStorage.
C29_StorageMatchesContext ==
    /\ Quiet => localStorage.token = authState.token
    /\ isAuthenticated(authState) =>
            (authState.user # Undefined /\ authState.token # NoItem)
    /\ (last.op = "loginThrew" /\ last.received # NoItem) =>
            localStorage.token # last.received

\* C30: logout() ends with no user, no token and no 'token' item in
\* localStorage, so isAuthenticated is false, whether the server's logout
\* succeeded, answered an error or could not be reached.
C30_LogoutAlwaysClears ==
    last.op = "logoutSettle" =>
        /\ authState.user = Undefined
        /\ authState.token = NoItem
        /\ localStorage.token = NoItem
        /\ ~isAuthenticated(authState)

C30_Witness ==
    /\ last.op = "logoutSettle"
    /\ last.outcome = "error"
    /\ last.wasIn
    /\ ~isAuthenticated(authState)

====
